---- MODULE Spec2Model ----
(***************************************************************************)
(* Upload lifecycle of the secure file-upload service: init / complete /   *)
(* download_url request handlers (app/api/routers/files.py), the scan      *)
(* worker (app/services/scanner.py), the quota service                     *)
(* (app/services/quota.py), the file-type policy                           *)
(* (app/services/file_type_policy.py) and the audit log                    *)
(* (app/services/audit.py).                                                *)
(*                                                                         *)
(* Database model: every handler run owns one ORM session.  A row is read  *)
(* into the session by db.get, attributes are changed on the session copy, *)
(* and db.commit() issues an UPDATE that carries exactly the columns whose *)
(* value differs from the value that was loaded.  Nothing in the code      *)
(* takes a row lock or compares a version, so the UPDATE of a session that *)
(* loaded the row earlier overwrites whatever was committed meanwhile.     *)
(*                                                                         *)
(* Specifications: Spec is the lifecycle when every call to the blob       *)
(* store, the database, Redis and the signer succeeds; SpecFaults adds the *)
(* runs in which one of them fails and SpecFaultsFair the scheduling of    *)
(* the worker; SpecRate is the rate limit dependency                       *)
(* (app/core/rate_limit.py); SpecToken is the demo cookie token            *)
(* (app/api/deps.py); SpecPure applies the state table                     *)
(* (app/services/state.py) and the file-type policy to bounded arguments.  *)
(***************************************************************************)
EXTENDS Integers, Sequences, FiniteSets, Bags, TLC

\* ------------------------------------------------------------------ bounds
MaxTicks == 1
MaxDownloads == 1
TickSeconds == 901
MaxScanFails == 4
MaxRequests == 6
MaxInFlight == 2
RateStep == 40
MaxRateSteps == 2
MaxTokenClock == 4
MaxCookies == 2

\* ------------------------------------------------------- program constants
MAX_FILES == 200
MAX_BYTES == 2000000000
MAX_SIZE_BYTES == 50 * 1024 * 1024
DEFAULT_MAX_SIZE_BYTES == 50 * 1024 * 1024
DEMO_MAX_UPLOAD_BYTES == 10 * 1024 * 1024
upload_presign_ttl_seconds == 15 * 60
RETRY_MAX == 3

None == "None"
NoSize == -1

ZIP_MIME == "application/zip"
OCTET_STREAM_MIME == "application/octet-stream"
DOCX_MIME == "application/vnd.openxmlformats-officedocument.wordprocessingml.document"
XLSX_MIME == "application/vnd.openxmlformats-officedocument.spreadsheetml.sheet"
PPTX_MIME == "application/vnd.openxmlformats-officedocument.presentationml.presentation"

\* FileObjectState (db/models.py); UPLOADED is declared but never assigned.
FileObjectState == {"INITIATED", "UPLOADED", "SCANNING", "ACTIVE", "QUARANTINED", "REJECTED"}

\* ------------------------------------------------------------ file policy
OFFICE_SNIFF_MIMES == {ZIP_MIME, OCTET_STREAM_MIME, DOCX_MIME, XLSX_MIME, PPTX_MIME}
OFFICE_DECLARED_MIMES == {ZIP_MIME, OCTET_STREAM_MIME}

\* byte strings are sequences of byte values
PDF_MAGIC == <<37, 80, 68, 70, 45>>
PNG_MAGIC == <<137, 80, 78, 71, 13, 10, 26, 10>>
JPG_MAGIC == <<255, 216, 255>>
GIF87_MAGIC == <<71, 73, 70, 56, 55, 97>>
GIF89_MAGIC == <<71, 73, 70, 56, 57, 97>>
PK_MAGIC == <<80, 75, 3, 4>>

FileTypePolicy(expected, sniff, magics) ==
    [allowed |-> TRUE, expected_mimes |-> expected, sniff_mimes |-> sniff,
     magic_prefixes |-> magics, max_size_bytes |-> NoSize]

FILE_TYPE_POLICIES ==
    [ext \in {".pdf", ".txt", ".csv", ".png", ".jpg", ".jpeg", ".gif",
              ".docx", ".xlsx", ".pptx"} |->
        CASE ext = ".pdf"  -> FileTypePolicy({"application/pdf"}, {"application/pdf"}, {PDF_MAGIC})
          [] ext = ".txt"  -> FileTypePolicy({"text/plain"}, {"text/plain"}, {})
          [] ext = ".csv"  -> FileTypePolicy({"text/csv", "application/csv"}, {"text/plain", "text/csv"}, {})
          [] ext = ".png"  -> FileTypePolicy({"image/png"}, {"image/png"}, {PNG_MAGIC})
          [] ext = ".jpg"  -> FileTypePolicy({"image/jpeg"}, {"image/jpeg"}, {JPG_MAGIC})
          [] ext = ".jpeg" -> FileTypePolicy({"image/jpeg"}, {"image/jpeg"}, {JPG_MAGIC})
          [] ext = ".gif"  -> FileTypePolicy({"image/gif"}, {"image/gif"}, {GIF87_MAGIC, GIF89_MAGIC})
          [] ext = ".docx" -> FileTypePolicy({DOCX_MIME} \cup OFFICE_DECLARED_MIMES, OFFICE_SNIFF_MIMES, {PK_MAGIC})
          [] ext = ".xlsx" -> FileTypePolicy({XLSX_MIME} \cup OFFICE_DECLARED_MIMES, OFFICE_SNIFF_MIMES, {PK_MAGIC})
          [] ext = ".pptx" -> FileTypePolicy({PPTX_MIME} \cup OFFICE_DECLARED_MIMES, OFFICE_SNIFF_MIMES, {PK_MAGIC})]

\* str.lower() on the atoms that occur in file names and MIME values.
Lower(s) ==
    CASE s = ".PDF" -> ".pdf"
      [] s = ".TXT" -> ".txt"
      [] s = ".DOCX" -> ".docx"
      [] s = "Text/Plain" -> "text/plain"
      [] s = "Application/PDF" -> "application/pdf"
      [] OTHER -> s

\* A file name is a sequence of atoms: the stem followed by its dotted
\* segments, <<"archive", ".tar", ".gz">>.  Path(filename).suffix is the last
\* dotted segment, or "" when there is none or the name is only ".xyz".
PathSuffix(filename) ==
    IF Len(filename) >= 2 /\ ~(Len(filename) = 2 /\ filename[1] = "")
    THEN filename[Len(filename)]
    ELSE ""

\* A content-type value is a sequence of atoms, <<"text/plain", ";", " ",
\* "charset=utf-8">>; None is the empty sequence.
RECURSIVE BeforeSemicolon(_)
BeforeSemicolon(v) ==
    IF v = <<>> \/ Head(v) = ";" THEN <<>>
    ELSE <<Head(v)>> \o BeforeSemicolon(Tail(v))

RECURSIVE Strip(_)
Strip(v) ==
    IF v = <<>> THEN v
    ELSE IF Head(v) = " " THEN Strip(Tail(v))
    ELSE IF v[Len(v)] = " " THEN Strip(SubSeq(v, 1, Len(v) - 1))
    ELSE v

\* the string spelled by a sequence of atoms (one atom: that atom)
AsString(v) ==
    IF Len(v) = 1 THEN v[1]
    ELSE IF v = <<>> THEN ""
    ELSE "<composite>"

\* _base_mime without .lower()
base_mime_keep_case(value) ==
    IF value = <<>> \/ value = <<"">> THEN None
    ELSE AsString(Strip(BeforeSemicolon(value)))

MimeValue(s) == IF s = None THEN <<>> ELSE <<s>>

base_mime(value) ==
    IF value = <<>> \/ value = <<"">> THEN None
    ELSE Lower(AsString(Strip(BeforeSemicolon(value))))

policy_for_filename(filename) ==
    LET ext == Lower(PathSuffix(filename))
    IN IF ext \in DOMAIN FILE_TYPE_POLICIES THEN ext ELSE None

StartsWith(bytes, prefix) ==
    /\ Len(bytes) >= Len(prefix)
    /\ SubSeq(bytes, 1, Len(prefix)) = prefix

ValidationResult(ok, reason) == [ok |-> ok, reason |-> reason]

\* validate_upload_metadata with the magic prefix tested before the sniffed type
validate_upload_metadata_magic_first(original_filename, declared_content_type, sniffed_content_type, size_bytes, sample_bytes, max_size_bytes) ==
    LET ext == policy_for_filename(original_filename)
    IN IF ext = None THEN ValidationResult(FALSE, "disallowed_extension")
       ELSE
         LET policy == FILE_TYPE_POLICIES[ext]
             declared_base == base_mime(declared_content_type)
             sniffed_base == base_mime(MimeValue(sniffed_content_type))
         IN IF ~policy.allowed
              THEN ValidationResult(FALSE, "disallowed_extension")
            ELSE IF max_size_bytes # NoSize /\ size_bytes # NoSize /\ size_bytes > max_size_bytes
              THEN ValidationResult(FALSE, "too_large")
            ELSE IF policy.max_size_bytes # NoSize /\ size_bytes # NoSize
                    /\ size_bytes > policy.max_size_bytes
              THEN ValidationResult(FALSE, "type_size_limit")
            ELSE IF declared_base \notin policy.expected_mimes
              THEN ValidationResult(FALSE, "declared_mime_mismatch")
            ELSE IF policy.magic_prefixes # {} /\ sample_bytes = <<>>
              THEN ValidationResult(FALSE, "magic_missing")
            ELSE IF policy.magic_prefixes # {}
                    /\ ~\E prefix \in policy.magic_prefixes : StartsWith(sample_bytes, prefix)
              THEN ValidationResult(FALSE, "magic_mismatch")
            ELSE IF sniffed_base = None
              THEN ValidationResult(FALSE, "sniff_missing")
            ELSE IF sniffed_base \notin policy.sniff_mimes
              THEN ValidationResult(FALSE, "sniff_mismatch")
            ELSE ValidationResult(TRUE, None)

\* max_size_bytes = NoSize stands for the argument None
validate_upload_metadata(original_filename, declared_content_type, sniffed_content_type, size_bytes, sample_bytes, max_size_bytes) ==
    LET ext == policy_for_filename(original_filename)
    IN IF ext = None THEN ValidationResult(FALSE, "disallowed_extension")
       ELSE
         LET policy == FILE_TYPE_POLICIES[ext]
             declared_base == base_mime(declared_content_type)
             sniffed_base == base_mime(MimeValue(sniffed_content_type))
         IN IF ~policy.allowed
              THEN ValidationResult(FALSE, "disallowed_extension")
            ELSE IF max_size_bytes # NoSize /\ size_bytes # NoSize /\ size_bytes > max_size_bytes
              THEN ValidationResult(FALSE, "too_large")
            ELSE IF policy.max_size_bytes # NoSize /\ size_bytes # NoSize
                    /\ size_bytes > policy.max_size_bytes
              THEN ValidationResult(FALSE, "type_size_limit")
            ELSE IF declared_base \notin policy.expected_mimes
              THEN ValidationResult(FALSE, "declared_mime_mismatch")
            ELSE IF sniffed_base = None
              THEN ValidationResult(FALSE, "sniff_missing")
            ELSE IF sniffed_base \notin policy.sniff_mimes
              THEN ValidationResult(FALSE, "sniff_mismatch")
            ELSE IF policy.magic_prefixes # {} /\ sample_bytes = <<>>
              THEN ValidationResult(FALSE, "magic_missing")
            ELSE IF policy.magic_prefixes # {}
                    /\ ~\E prefix \in policy.magic_prefixes : StartsWith(sample_bytes, prefix)
              THEN ValidationResult(FALSE, "magic_mismatch")
            ELSE ValidationResult(TRUE, None)


\* --------------------------------------------------------------- blob data
\* The objects a client can PUT ("mid", a text object between the demo limit
\* and the scanner's limit, only in the scope sizes).  Each stands for one byte string; sha256 is
\* injective on them, so the digest of an object is represented by its name.
Contents == {"text", "pdf", "docx", "bin", "big"}

\* leading bytes of the object (the 16 KiB range read returns them)
SampleOf(c) ==
    CASE c = "text" -> <<118, 97, 108, 105, 100>>
      [] c = "pdf"  -> <<37, 80, 68, 70, 45, 49>>
      [] c = "docx" -> <<80, 75, 3, 4, 20>>
      [] c = "bin"  -> <<0, 1, 2, 3>>
      [] c = "big"  -> <<98, 105, 103>>
      [] c = "mid"  -> <<109, 105, 100>>

\* ContentLength reported by HEAD
SizeOf(c) ==
    CASE c = "text" -> 16
      [] c = "pdf"  -> 1024
      [] c = "docx" -> 4096
      [] c = "bin"  -> 2048
      [] c = "big"  -> MAX_SIZE_BYTES + 1
      [] c = "mid"  -> DEMO_MAX_UPLOAD_BYTES + 1

\* hashlib.sha256(...).hexdigest() over the streamed object
Sha256Of(c) == c

\* magic.from_buffer(sample, mime=True)
magic_from_buffer(c) ==
    CASE c = "text" -> "text/plain"
      [] c = "pdf"  -> "application/pdf"
      [] c = "docx" -> ZIP_MIME
      [] c = "bin"  -> OCTET_STREAM_MIME
      [] c = "big"  -> "text/plain"
      [] c = "mid"  -> "text/plain"

\* zipfile.ZipFile(data).namelist(); {None} stands for BadZipFile
ZipNamelist(c) ==
    IF c = "docx" THEN {"[Content_Types].xml", "word/document.xml", "docProps/app.xml"}
    ELSE {None}

\* ------------------------------------------------------------------ scanner
OFFICE_ZIP_MIME_TYPES ==
    [m \in {DOCX_MIME, XLSX_MIME, PPTX_MIME} |->
        CASE m = DOCX_MIME -> {"[Content_Types].xml", "word/document.xml"}
          [] m = XLSX_MIME -> {"[Content_Types].xml", "xl/workbook.xml"}
          [] m = PPTX_MIME -> {"[Content_Types].xml", "ppt/presentation.xml"}]

ALLOWED_CONTENT_TYPES ==
    {"text/plain", "application/pdf", "image/png", "image/jpeg", "image/gif",
     "image/webp"} \cup DOMAIN OFFICE_ZIP_MIME_TYPES

is_valid_office_zip(c, declared_mime) ==
    IF declared_mime \notin DOMAIN OFFICE_ZIP_MIME_TYPES THEN FALSE
    ELSE IF SizeOf(c) > MAX_SIZE_BYTES THEN FALSE
    ELSE IF ZipNamelist(c) = {None} THEN FALSE
    ELSE OFFICE_ZIP_MIME_TYPES[declared_mime] \subseteq ZipNamelist(c)

\* scan_file from the HEAD request up to the decision; row is the session's
\* copy of the FileObject, c the object in the blob store.  Returns the copy
\* with the attributes the code assigns and the branch taken ("pass" is the
\* branch that goes on to the quota increment).
scan_rules(row, c) ==
    LET size == SizeOf(c)
        sample == SampleOf(c)
        sniffed == IF sample # <<>> THEN magic_from_buffer(c) ELSE row.sniffed_content_type
        seen == [row EXCEPT !.size_bytes = size, !.sniffed_content_type = sniffed]
        declared_base == AsString(BeforeSemicolon(row.declared_content_type))
        sniff_base == AsString(BeforeSemicolon(MimeValue(sniffed)))
        is_office_declared == declared_base \in DOMAIN OFFICE_ZIP_MIME_TYPES
        should_validate_office ==
            is_office_declared /\ sniff_base \in {ZIP_MIME, OCTET_STREAM_MIME}
        declared_ok == declared_base \in ALLOWED_CONTENT_TYPES
        sniff_ok == sniff_base \in ALLOWED_CONTENT_TYPES \/ should_validate_office
        quarantine(reason) ==
            [local |-> [seen EXCEPT !.state = "QUARANTINED"], branch |-> reason,
             should_validate_office |-> should_validate_office]
    IN IF sniffed = None THEN quarantine("sniff_missing")
       ELSE IF size # 0 /\ size > MAX_SIZE_BYTES THEN quarantine("too_large")
       ELSE IF should_validate_office /\ ~is_valid_office_zip(c, declared_base)
         THEN quarantine("office_zip_invalid")
       ELSE IF declared_ok /\ sniff_ok
         THEN [local |-> [seen EXCEPT !.state = "ACTIVE"], branch |-> "pass",
               should_validate_office |-> should_validate_office]
       ELSE quarantine("disallowed_type")

\* scan_precheck without the test of the state
scan_precheck_any_state(rows_, f) ==
    IF f \notin DOMAIN rows_ THEN "missing" ELSE "go"

\* scan_file lines 87-91: the check made right after db.get
scan_precheck(rows_, f) ==
    IF f \notin DOMAIN rows_ THEN "missing"
    ELSE IF rows_[f].state # "SCANNING" THEN "skip"
    ELSE "go"

\* -------------------------------------------------------------------- quota
NewCounter == [files_count |-> 0, bytes_stored |-> 0]

\* enforce_init that refuses only above the limit
enforce_init_above_limit(counter) == counter.files_count <= MAX_FILES

\* TRUE: no PermissionError
enforce_init(counter) == counter.files_count < MAX_FILES

\* increment_on_active without the comparison against the limits
increment_on_active_unchecked(counter, file_size) ==
    [ok |-> TRUE, files_count |-> counter.files_count + 1,
     bytes_stored |-> counter.bytes_stored + file_size]

\* QuotaService.increment_on_active after _get_counter: the values it would
\* write and whether it raises PermissionError
increment_on_active(counter, file_size) ==
    LET new_files == counter.files_count + 1
        new_bytes == counter.bytes_stored + file_size
    IN [ok |-> ~(new_files > MAX_FILES \/ new_bytes > MAX_BYTES),
        files_count |-> new_files, bytes_stored |-> new_bytes]

\* ----------------------------------------------------------------- callers
\* users table at start-up: u1 has role user, adm has role admin.  d1 is a
\* demo session id carried by a valid demo cookie.
Users == {"u1", "adm"}
RoleOf(u) == IF u = "adm" THEN "admin" ELSE "user"
Bearer(u) == [user |-> u, demo |-> None]
DemoSession(d) == [user |-> None, demo |-> d]
Callers == {Bearer("u1"), Bearer("adm"), DemoSession("d1")}
Uploaders == {Bearer("u1"), DemoSession("d1")}

Files == {"f1", "f2"}
Handlers == {"h1", "h2"}
Workers == {"w1", "w2"}

\* init payloads: file name, declared content type
Payloads ==
    { [original_filename |-> <<"note", ".txt">>, content_type |-> <<"text/plain">>],
      [original_filename |-> <<"doc", ".pdf">>, content_type |-> <<"application/pdf">>],
      [original_filename |-> <<"resume", ".docx">>, content_type |-> <<DOCX_MIME>>] }
DeclaredSizes == {NoSize, DEMO_MAX_UPLOAD_BYTES + 1}

PayloadTxt == [original_filename |-> <<"note", ".txt">>, content_type |-> <<"text/plain">>]
PayloadPdf == [original_filename |-> <<"doc", ".pdf">>, content_type |-> <<"application/pdf">>]
PayloadCsv == [original_filename |-> <<"data", ".csv">>, content_type |-> <<"text/csv">>]
PayloadDocx == [original_filename |-> <<"resume", ".docx">>, content_type |-> <<DOCX_MIME>>]
PayloadDocxAsZip == [original_filename |-> <<"resume", ".docx">>, content_type |-> <<ZIP_MIME>>]

\* usage_counters rows present before the first request (an owner's earlier
\* files): none, one file slot left, 20 bytes left, no slot left
SeedCounters ==
    { <<>>,
      "u1" :> [files_count |-> MAX_FILES - 1, bytes_stored |-> 0],
      "u1" :> [files_count |-> 5, bytes_stored |-> MAX_BYTES - 20],
      "u1" :> [files_count |-> MAX_FILES, bytes_stored |-> 0] }

\* The explored input space is the union of five scopes; the initial state
\* picks one and it never changes.
\*   lifecycle: one file, every payload, object and caller, calls one at a time
\*   overlap:   one file, overlapping complete_upload and scan_file runs
\*   quota:     two files and owners' counters near their limits, two workers
\*   types:     one file of a type the policy accepts under a declared type
\*              other than the one of the lifecycle scope (.csv, .docx sent
\*              as application/zip), uploaded and scanned without overlap
\*   sizes:     one text file of a demo session, objects of 16 bytes, of
\*              10 MiB + 1 and of 50 MiB + 1, overlapping scan_file runs
ScopeNames == {"lifecycle", "overlap", "quota", "types", "sizes"}
ScopeOf(name) ==
    CASE name = "lifecycle" ->
           [files |-> {"f1"}, payloads |-> Payloads,
            checksums |-> {"text", "pdf", "docx", "bin"}, declared_sizes |-> DeclaredSizes,
            contents |-> Contents, uploaders |-> Uploaders, callers |-> Callers,
            handlers |-> {"h1"}, workers |-> {"w1"}, seeds |-> {<<>>},
            downloads |-> TRUE, direct |-> TRUE, clock |-> TRUE]
      [] name = "overlap" ->
           [files |-> {"f1"}, payloads |-> {PayloadPdf},
            checksums |-> {"pdf"}, declared_sizes |-> {NoSize},
            contents |-> {"pdf", "text"}, uploaders |-> Uploaders,
            callers |-> Uploaders, handlers |-> Handlers, workers |-> Workers,
            seeds |-> {<<>>}, downloads |-> FALSE, direct |-> TRUE, clock |-> FALSE]
      [] name = "quota" ->
           [files |-> Files, payloads |-> {PayloadTxt},
            checksums |-> {"text"}, declared_sizes |-> {NoSize},
            contents |-> {"text"}, uploaders |-> Uploaders, callers |-> Uploaders,
            handlers |-> {"h1"}, workers |-> Workers, seeds |-> SeedCounters,
            downloads |-> FALSE, direct |-> FALSE, clock |-> FALSE]
      [] name = "types" ->
           [files |-> {"f1"}, payloads |-> {PayloadCsv, PayloadDocx, PayloadDocxAsZip},
            checksums |-> {"text", "docx"}, declared_sizes |-> {NoSize},
            contents |-> {"text", "docx"}, uploaders |-> {Bearer("u1")},
            callers |-> {Bearer("u1")}, handlers |-> {"h1"}, workers |-> {"w1"},
            seeds |-> {<<>>}, downloads |-> FALSE, direct |-> FALSE, clock |-> FALSE]
      [] name = "sizes" ->
           [files |-> {"f1"}, payloads |-> {PayloadTxt},
            checksums |-> {"text"}, declared_sizes |-> {NoSize},
            contents |-> {"text", "mid", "big"}, uploaders |-> {DemoSession("d1")},
            callers |-> {DemoSession("d1")}, handlers |-> {"h1"}, workers |-> Workers,
            seeds |-> {<<>>}, downloads |-> FALSE, direct |-> TRUE, clock |-> FALSE]
      [] name = "faults" ->
           [files |-> {"f1"}, payloads |-> {PayloadPdf},
            checksums |-> {"pdf"}, declared_sizes |-> {NoSize},
            contents |-> {"pdf", "text"}, uploaders |-> Uploaders, callers |-> Uploaders,
            handlers |-> {"h1"}, workers |-> {"w1"}, seeds |-> {<<>>},
            downloads |-> FALSE, direct |-> FALSE, clock |-> FALSE]

\* -------------------------------------------------------------------- state
VARIABLES
    now,        \* wall clock, seconds
    users,      \* ids in table users
    rows,       \* table file_objects: file id -> committed row
    blobs,      \* blob store: file id (object key) -> stored object
    counters,   \* table usage_counters: owner id -> committed row
    seeded,     \* usage_counters as it was before the first request
    audit,      \* table audit_events, a bag of events
    queue,      \* RQ queue "scan": sequence of jobs
    hs,         \* complete_upload runs in flight, one ORM session each
    ws,         \* scan_file runs in flight, one ORM session each
    resp,       \* the response (or return value) of the call that ended in the last step
    scope,      \* name of the part of the input space explored from the initial state
    redis,      \* rate limiter keys in Redis: key -> count
    cookies,    \* demo cookies handed out by POST /demo/start
    calls,      \* requests inside a rate limit dependency, after their INCR
    admitted    \* history: the requests the rate limiter let through, with their time

vars == <<now, users, rows, blobs, counters, seeded, audit, queue, hs, ws, resp, scope, redis, cookies, calls, admitted>>

Idle == [pc |-> "idle"]
Scope == ScopeOf(scope)
NoResp == [op |-> "none"]

\* AuditEvent as log_event builds it (ip and user agent left out)
Event(actor, action, f, reason) ==
    [actor_user_id |-> actor, action |-> action, file_id |-> f, reason |-> reason]

log_event(bag, actor, action, f, reason) ==
    bag (+) SetToBag({Event(actor, action, f, reason)})

\* number of audit events of file f with one of the given action codes
CountEvents(bag, f, actions) ==
    LET hits == {e \in BagToSet(bag) : e.file_id = f /\ e.action \in actions}
        RECURSIVE Sum(_)
        Sum(S) == IF S = {} THEN 0
                  ELSE LET e == CHOOSE x \in S : TRUE
                       IN CopiesIn(e, bag) + Sum(S \ {e})
    IN Sum(hits)

\* db.commit() of a session that loaded `loaded` and now holds `local`:
\* UPDATE ... SET <columns whose value changed> on the committed row
Flush(committed, loaded, local) ==
    [k \in DOMAIN committed |->
        IF local[k] # loaded[k] THEN local[k] ELSE committed[k]]

HttpError(op, caller, f, status, detail) ==
    [op |-> op, caller |-> caller, file |-> f, status |-> status, detail |-> detail]

\* the first unused file id (ids are fresh uuids)
NextFileId ==
    IF "f1" \notin DOMAIN rows THEN "f1" ELSE "f2"

\* the first idle request context / worker process
IdleHandler == IF hs["h1"].pc = "idle" THEN "h1" ELSE "h2"
IdleWorker == IF ws["w1"].pc = "idle" THEN "w1" ELSE "w2"

Init ==
    /\ now = 0
    /\ users = Users
    /\ rows = <<>>
    /\ blobs = <<>>
    /\ scope \in ScopeNames
    /\ counters \in Scope.seeds
    /\ seeded = counters
    /\ audit = EmptyBag
    /\ queue = <<>>
    /\ hs = [h \in Handlers |-> Idle]
    /\ ws = [w \in Workers |-> Idle]
    /\ resp = NoResp
    /\ redis = <<>>
    /\ cookies = {}
    /\ calls = EmptyBag
    /\ admitted = EmptyBag

\* ------------------------------------------------------------------- clock
Tick ==
    /\ Scope.clock
    /\ now + TickSeconds <= MaxTicks * TickSeconds
    /\ now' = now + TickSeconds
    /\ resp' = NoResp
    /\ UNCHANGED <<users, rows, blobs, counters, seeded, audit, queue, hs, ws, scope, redis, cookies, calls, admitted>>

\* ------------------------------------------------------------- init_upload
\* the decision of init_upload before the row is added: 0 = go on
init_precheck(caller, size_bytes, counters_) ==
    IF caller.user # None
    THEN IF caller.user \in DOMAIN counters_ /\ ~enforce_init(counters_[caller.user])
         THEN [status |-> 403, detail |-> "quota exceeded"]
         ELSE [status |-> 0, detail |-> None]
    ELSE IF caller.demo = None
         THEN [status |-> 401, detail |-> "Start demo at POST /demo/start"]
    ELSE IF size_bytes # NoSize /\ size_bytes # 0 /\ size_bytes > DEMO_MAX_UPLOAD_BYTES
         THEN [status |-> 400, detail |-> "demo upload size exceeds 10MB limit"]
    ELSE [status |-> 0, detail |-> None]

NewFileObject(caller, payload, checksum, expires_at) ==
    [owner_id |-> IF caller.user # None THEN caller.user ELSE caller.demo,
     demo_id |-> IF caller.user # None THEN None ELSE caller.demo,
     original_filename |-> payload.original_filename,
     declared_content_type |-> payload.content_type,
     checksum_sha256 |-> checksum,
     checksum_verified |-> FALSE,
     size_bytes |-> NoSize,
     sniffed_content_type |-> None,
     state |-> "INITIATED",
     upload_expires_at |-> expires_at]

InitUpload(caller, payload, checksum, size_bytes) ==
    LET pre == init_precheck(caller, size_bytes, counters)
        f == NextFileId
        \* _get_counter inside enforce_init creates and commits a missing row
        counters1 == IF caller.user # None /\ caller.user \notin DOMAIN counters
                     THEN counters @@ (caller.user :> NewCounter)
                     ELSE counters
    IN /\ DOMAIN rows # Scope.files
       /\ counters' = counters1
       /\ IF pre.status # 0
          THEN /\ resp' = HttpError("init", caller, None, pre.status, pre.detail)
               /\ UNCHANGED <<users, rows, audit>>
          ELSE /\ users' = users \cup {IF caller.user # None THEN caller.user ELSE caller.demo}
               /\ rows' = rows @@ (f :> NewFileObject(caller, payload, checksum,
                                        now + upload_presign_ttl_seconds))
               /\ audit' = log_event(audit, caller.user, "FILE_INIT", f, None)
               /\ resp' = [op |-> "init", caller |-> caller, file |-> f, status |-> 200,
                           detail |-> None]
       /\ UNCHANGED <<now, blobs, seeded, queue, hs, ws, scope, redis, cookies, calls, admitted>>

\* ---------------------------------------------------- client PUT to the URL
\* The presigned PUT URL accepts any body until it expires, any number of
\* times, whatever the state of the row.
Put(f, c) ==
    /\ f \in DOMAIN rows
    /\ now <= rows[f].upload_expires_at
    /\ IF f \in DOMAIN blobs THEN blobs[f] # c ELSE TRUE
    /\ blobs' = IF f \in DOMAIN blobs THEN [blobs EXCEPT ![f] = c] ELSE blobs @@ (f :> c)
    /\ resp' = NoResp
    /\ UNCHANGED <<now, users, rows, counters, seeded, audit, queue, hs, ws, scope, redis, cookies, calls, admitted>>


\* --------------------------------------------------------- complete_upload
\* complete_precheck without the test of the state
complete_precheck_any_state(caller, rows_, f, now_) ==
    IF f \notin DOMAIN rows_
      THEN [status |-> 404, detail |-> "File not found"]
    ELSE IF caller.user # None /\ RoleOf(caller.user) # "admin"
            /\ rows_[f].owner_id # caller.user
      THEN [status |-> 403, detail |-> "Forbidden"]
    ELSE IF caller.user = None /\ caller.demo = None
      THEN [status |-> 401, detail |-> "Start demo at POST /demo/start"]
    ELSE IF caller.user = None /\ rows_[f].demo_id # caller.demo
      THEN [status |-> 404, detail |-> "File not found"]
    ELSE IF rows_[f].upload_expires_at < now_
      THEN [status |-> 400, detail |-> "Upload request expired"]
    ELSE [status |-> 0, detail |-> None]

\* complete_precheck without the test of upload_expires_at
complete_precheck_no_expiry(caller, rows_, f, now_) ==
    IF f \notin DOMAIN rows_
      THEN [status |-> 404, detail |-> "File not found"]
    ELSE IF caller.user # None /\ RoleOf(caller.user) # "admin"
            /\ rows_[f].owner_id # caller.user
      THEN [status |-> 403, detail |-> "Forbidden"]
    ELSE IF caller.user = None /\ caller.demo = None
      THEN [status |-> 401, detail |-> "Start demo at POST /demo/start"]
    ELSE IF caller.user = None /\ rows_[f].demo_id # caller.demo
      THEN [status |-> 404, detail |-> "File not found"]
    ELSE IF rows_[f].state # "INITIATED"
      THEN [status |-> 400, detail |-> "Upload not in INITIATED state"]
    ELSE [status |-> 0, detail |-> None]

\* complete_precheck with the test of the state moved before the access checks
complete_precheck_state_first(caller, rows_, f, now_) ==
    IF f \notin DOMAIN rows_
      THEN [status |-> 404, detail |-> "File not found"]
    ELSE IF rows_[f].state # "INITIATED"
      THEN [status |-> 400, detail |-> "Upload not in INITIATED state"]
    ELSE IF caller.user # None /\ RoleOf(caller.user) # "admin"
            /\ rows_[f].owner_id # caller.user
      THEN [status |-> 403, detail |-> "Forbidden"]
    ELSE IF caller.user = None /\ caller.demo = None
      THEN [status |-> 401, detail |-> "Start demo at POST /demo/start"]
    ELSE IF caller.user = None /\ rows_[f].demo_id # caller.demo
      THEN [status |-> 404, detail |-> "File not found"]
    ELSE IF rows_[f].upload_expires_at < now_
      THEN [status |-> 400, detail |-> "Upload request expired"]
    ELSE [status |-> 0, detail |-> None]

\* lines 190-218: the checks made right after db.get; status 0 = go on
complete_precheck(caller, rows_, f, now_) ==
    IF f \notin DOMAIN rows_
      THEN [status |-> 404, detail |-> "File not found"]
    ELSE IF caller.user # None /\ RoleOf(caller.user) # "admin"
            /\ rows_[f].owner_id # caller.user
      THEN [status |-> 403, detail |-> "Forbidden"]
    ELSE IF caller.user = None /\ caller.demo = None
      THEN [status |-> 401, detail |-> "Start demo at POST /demo/start"]
    ELSE IF caller.user = None /\ rows_[f].demo_id # caller.demo
      THEN [status |-> 404, detail |-> "File not found"]
    ELSE IF rows_[f].state # "INITIATED"
      THEN [status |-> 400, detail |-> "Upload not in INITIATED state"]
    ELSE IF rows_[f].upload_expires_at < now_
      THEN [status |-> 400, detail |-> "Upload request expired"]
    ELSE [status |-> 0, detail |-> None]

\* complete_outcome with the file-type policy tested before the checksum
complete_outcome_policy_first(row, blobs_, f) ==
    IF f \notin DOMAIN blobs_
    THEN [status |-> 400, detail |-> "Object not uploaded", local |-> row,
          action |-> None, reason |-> None, enqueue |-> FALSE]
    ELSE
      LET c == blobs_[f]
          sized == [row EXCEPT !.size_bytes = SizeOf(c)]
          computed == Sha256Of(c)
          sample == SampleOf(c)
          sniffed == IF sample # <<>> THEN magic_from_buffer(c) ELSE None
          checked == [sized EXCEPT !.checksum_verified = TRUE,
                                   !.sniffed_content_type = sniffed]
          validation == validate_upload_metadata(
                            row.original_filename, row.declared_content_type, sniffed,
                            sized.size_bytes, sample,
                            IF row.demo_id # None THEN DEMO_MAX_UPLOAD_BYTES ELSE NoSize)
          done(local, action, reason, enqueue) ==
              [status |-> 200, detail |-> None, local |-> local, action |-> action,
               reason |-> reason, enqueue |-> enqueue]
      IN IF row.demo_id # None /\ sized.size_bytes # 0
            /\ sized.size_bytes > DEMO_MAX_UPLOAD_BYTES
           THEN done([sized EXCEPT !.state = "QUARANTINED"],
                     "UPLOAD_QUARANTINED", "demo_size_limit", FALSE)
         ELSE IF ~validation.ok
           THEN done([checked EXCEPT !.state = "QUARANTINED"],
                     "UPLOAD_QUARANTINED", validation.reason, FALSE)
         ELSE IF computed # row.checksum_sha256
           THEN done([sized EXCEPT !.state = "REJECTED", !.checksum_verified = FALSE],
                     "UPLOAD_REJECTED", "checksum_mismatch", FALSE)
         ELSE done([checked EXCEPT !.state = "SCANNING"], "UPLOAD_ENQUEUED", None, TRUE)

\* complete_outcome without the assignment checksum_verified = True
complete_outcome_unverified(row, blobs_, f) ==
    IF f \notin DOMAIN blobs_
    THEN [status |-> 400, detail |-> "Object not uploaded", local |-> row,
          action |-> None, reason |-> None, enqueue |-> FALSE]
    ELSE
      LET c == blobs_[f]
          sized == [row EXCEPT !.size_bytes = SizeOf(c)]
          computed == Sha256Of(c)
          sample == SampleOf(c)
          sniffed == IF sample # <<>> THEN magic_from_buffer(c) ELSE None
          checked == [sized EXCEPT !.sniffed_content_type = sniffed]
          validation == validate_upload_metadata(
                            row.original_filename, row.declared_content_type, sniffed,
                            sized.size_bytes, sample,
                            IF row.demo_id # None THEN DEMO_MAX_UPLOAD_BYTES ELSE NoSize)
          done(local, action, reason, enqueue) ==
              [status |-> 200, detail |-> None, local |-> local, action |-> action,
               reason |-> reason, enqueue |-> enqueue]
      IN IF row.demo_id # None /\ sized.size_bytes # 0
            /\ sized.size_bytes > DEMO_MAX_UPLOAD_BYTES
           THEN done([sized EXCEPT !.state = "QUARANTINED"],
                     "UPLOAD_QUARANTINED", "demo_size_limit", FALSE)
         ELSE IF computed # row.checksum_sha256
           THEN done([sized EXCEPT !.state = "REJECTED", !.checksum_verified = FALSE],
                     "UPLOAD_REJECTED", "checksum_mismatch", FALSE)
         ELSE IF ~validation.ok
           THEN done([checked EXCEPT !.state = "QUARANTINED"],
                     "UPLOAD_QUARANTINED", validation.reason, FALSE)
         ELSE done([checked EXCEPT !.state = "SCANNING"], "UPLOAD_ENQUEUED", None, TRUE)

\* complete_outcome that rejects the row when the blob is missing
complete_outcome_missing_rejects(row, blobs_, f) ==
    IF f \notin DOMAIN blobs_
    THEN [status |-> 200, detail |-> None, local |-> [row EXCEPT !.state = "REJECTED"],
          action |-> "UPLOAD_REJECTED", reason |-> "object_not_uploaded",
          enqueue |-> FALSE]
    ELSE
      LET c == blobs_[f]
          sized == [row EXCEPT !.size_bytes = SizeOf(c)]
          computed == Sha256Of(c)
          sample == SampleOf(c)
          sniffed == IF sample # <<>> THEN magic_from_buffer(c) ELSE None
          checked == [sized EXCEPT !.checksum_verified = TRUE,
                                   !.sniffed_content_type = sniffed]
          validation == validate_upload_metadata(
                            row.original_filename, row.declared_content_type, sniffed,
                            sized.size_bytes, sample,
                            IF row.demo_id # None THEN DEMO_MAX_UPLOAD_BYTES ELSE NoSize)
          done(local, action, reason, enqueue) ==
              [status |-> 200, detail |-> None, local |-> local, action |-> action,
               reason |-> reason, enqueue |-> enqueue]
      IN IF row.demo_id # None /\ sized.size_bytes # 0
            /\ sized.size_bytes > DEMO_MAX_UPLOAD_BYTES
           THEN done([sized EXCEPT !.state = "QUARANTINED"],
                     "UPLOAD_QUARANTINED", "demo_size_limit", FALSE)
         ELSE IF computed # row.checksum_sha256
           THEN done([sized EXCEPT !.state = "REJECTED", !.checksum_verified = FALSE],
                     "UPLOAD_REJECTED", "checksum_mismatch", FALSE)
         ELSE IF ~validation.ok
           THEN done([checked EXCEPT !.state = "QUARANTINED"],
                     "UPLOAD_QUARANTINED", validation.reason, FALSE)
         ELSE done([checked EXCEPT !.state = "SCANNING"], "UPLOAD_ENQUEUED", None, TRUE)

\* complete_outcome without the comparison of the checksum
complete_outcome_no_checksum(row, blobs_, f) ==
    IF f \notin DOMAIN blobs_
    THEN [status |-> 400, detail |-> "Object not uploaded", local |-> row,
          action |-> None, reason |-> None, enqueue |-> FALSE]
    ELSE
      LET c == blobs_[f]
          sized == [row EXCEPT !.size_bytes = SizeOf(c)]
          computed == Sha256Of(c)
          sample == SampleOf(c)
          sniffed == IF sample # <<>> THEN magic_from_buffer(c) ELSE None
          checked == [sized EXCEPT !.checksum_verified = TRUE,
                                   !.sniffed_content_type = sniffed]
          validation == validate_upload_metadata(
                            row.original_filename, row.declared_content_type, sniffed,
                            sized.size_bytes, sample,
                            IF row.demo_id # None THEN DEMO_MAX_UPLOAD_BYTES ELSE NoSize)
          done(local, action, reason, enqueue) ==
              [status |-> 200, detail |-> None, local |-> local, action |-> action,
               reason |-> reason, enqueue |-> enqueue]
      IN IF row.demo_id # None /\ sized.size_bytes # 0
            /\ sized.size_bytes > DEMO_MAX_UPLOAD_BYTES
           THEN done([sized EXCEPT !.state = "QUARANTINED"],
                     "UPLOAD_QUARANTINED", "demo_size_limit", FALSE)
         ELSE IF ~validation.ok
           THEN done([checked EXCEPT !.state = "QUARANTINED"],
                     "UPLOAD_QUARANTINED", validation.reason, FALSE)
         ELSE done([checked EXCEPT !.state = "SCANNING"], "UPLOAD_ENQUEUED", None, TRUE)

\* complete_outcome without the file-type policy
complete_outcome_no_policy(row, blobs_, f) ==
    IF f \notin DOMAIN blobs_
    THEN [status |-> 400, detail |-> "Object not uploaded", local |-> row,
          action |-> None, reason |-> None, enqueue |-> FALSE]
    ELSE
      LET c == blobs_[f]
          sized == [row EXCEPT !.size_bytes = SizeOf(c)]
          computed == Sha256Of(c)
          sample == SampleOf(c)
          sniffed == IF sample # <<>> THEN magic_from_buffer(c) ELSE None
          checked == [sized EXCEPT !.checksum_verified = TRUE,
                                   !.sniffed_content_type = sniffed]
          validation == validate_upload_metadata(
                            row.original_filename, row.declared_content_type, sniffed,
                            sized.size_bytes, sample,
                            IF row.demo_id # None THEN DEMO_MAX_UPLOAD_BYTES ELSE NoSize)
          done(local, action, reason, enqueue) ==
              [status |-> 200, detail |-> None, local |-> local, action |-> action,
               reason |-> reason, enqueue |-> enqueue]
      IN IF row.demo_id # None /\ sized.size_bytes # 0
            /\ sized.size_bytes > DEMO_MAX_UPLOAD_BYTES
           THEN done([sized EXCEPT !.state = "QUARANTINED"],
                     "UPLOAD_QUARANTINED", "demo_size_limit", FALSE)
         ELSE IF computed # row.checksum_sha256
           THEN done([sized EXCEPT !.state = "REJECTED", !.checksum_verified = FALSE],
                     "UPLOAD_REJECTED", "checksum_mismatch", FALSE)
         ELSE done([checked EXCEPT !.state = "SCANNING"], "UPLOAD_ENQUEUED", None, TRUE)

\* complete_outcome that enqueues the scan job before the object is there
\* and before the row is moved to SCANNING
complete_outcome_enqueue_first(row, blobs_, f) ==
    IF f \notin DOMAIN blobs_
    THEN [status |-> 200, detail |-> None, local |-> row,
          action |-> "UPLOAD_ENQUEUED", reason |-> None, enqueue |-> TRUE]
    ELSE complete_outcome_no_policy(row, blobs_, f)

\* lines 220-339 on the session copy `row`: the attributes assigned, the
\* audit event logged and whether a scan job is enqueued
complete_outcome(row, blobs_, f) ==
    IF f \notin DOMAIN blobs_
    THEN [status |-> 400, detail |-> "Object not uploaded", local |-> row,
          action |-> None, reason |-> None, enqueue |-> FALSE]
    ELSE
      LET c == blobs_[f]
          sized == [row EXCEPT !.size_bytes = SizeOf(c)]
          computed == Sha256Of(c)
          sample == SampleOf(c)
          sniffed == IF sample # <<>> THEN magic_from_buffer(c) ELSE None
          checked == [sized EXCEPT !.checksum_verified = TRUE,
                                   !.sniffed_content_type = sniffed]
          validation == validate_upload_metadata(
                            row.original_filename, row.declared_content_type, sniffed,
                            sized.size_bytes, sample,
                            IF row.demo_id # None THEN DEMO_MAX_UPLOAD_BYTES ELSE NoSize)
          done(local, action, reason, enqueue) ==
              [status |-> 200, detail |-> None, local |-> local, action |-> action,
               reason |-> reason, enqueue |-> enqueue]
      IN IF row.demo_id # None /\ sized.size_bytes # 0
            /\ sized.size_bytes > DEMO_MAX_UPLOAD_BYTES
           THEN done([sized EXCEPT !.state = "QUARANTINED"],
                     "UPLOAD_QUARANTINED", "demo_size_limit", FALSE)
         ELSE IF computed # row.checksum_sha256
           THEN done([sized EXCEPT !.state = "REJECTED", !.checksum_verified = FALSE],
                     "UPLOAD_REJECTED", "checksum_mismatch", FALSE)
         ELSE IF ~validation.ok
           THEN done([checked EXCEPT !.state = "QUARANTINED"],
                     "UPLOAD_QUARANTINED", validation.reason, FALSE)
         ELSE done([checked EXCEPT !.state = "SCANNING"], "UPLOAD_ENQUEUED", None, TRUE)

\* enqueue_scan: a job with Retry(max=3)
enqueue_scan(q, f) == Append(q, [file_id |-> f, retries_left |-> RETRY_MAX])

\* complete_upload up to the end of its precondition checks
CompleteStart(caller, f) ==
    LET pre == complete_precheck(caller, rows, f, now)
        h == IdleHandler
    IN /\ \E x \in Scope.handlers : hs[x].pc = "idle"
       /\ IF pre.status # 0
          THEN /\ resp' = HttpError("complete", caller, f, pre.status, pre.detail)
               /\ UNCHANGED hs
          ELSE /\ hs' = [hs EXCEPT ![h] = [pc |-> "loaded", caller |-> caller, file |-> f,
                                           loaded |-> rows[f]]]
               /\ resp' = NoResp
       /\ UNCHANGED <<now, users, rows, blobs, counters, seeded, audit, queue, ws, scope, redis, cookies, calls, admitted>>

\* the rest of complete_upload: blob reads, commit, audit event, enqueue
CompleteFinish(h) ==
    /\ hs[h].pc = "loaded"
    /\ LET f == hs[h].file
           caller == hs[h].caller
           out == complete_outcome(hs[h].loaded, blobs, f)
       IN IF out.status # 200
          THEN /\ resp' = HttpError("complete", caller, f, out.status, out.detail)
               /\ UNCHANGED <<rows, audit, queue>>
          ELSE /\ rows' = [rows EXCEPT ![f] = Flush(@, hs[h].loaded, out.local)]
               /\ audit' = log_event(audit, caller.user, out.action, f, out.reason)
               /\ queue' = IF out.enqueue THEN enqueue_scan(queue, f) ELSE queue
               /\ resp' = [op |-> "complete", caller |-> caller, file |-> f, status |-> 200,
                           detail |-> None, state |-> rows'[f].state]
    /\ hs' = [hs EXCEPT ![h] = Idle]
    /\ UNCHANGED <<now, users, blobs, counters, seeded, ws, scope, redis, cookies, calls, admitted>>

\* ------------------------------------------------------------ download_url
\* download_precheck without the test of the state
download_precheck_any_state(caller, rows_, f) ==
    IF f \notin DOMAIN rows_
      THEN [status |-> 404, detail |-> "File not found"]
    ELSE IF caller.user # None /\ RoleOf(caller.user) # "admin"
            /\ rows_[f].owner_id # caller.user
      THEN [status |-> 403, detail |-> "Forbidden"]
    ELSE IF caller.user = None /\ caller.demo = None
      THEN [status |-> 401, detail |-> "Start demo at POST /demo/start"]
    ELSE IF caller.user = None /\ rows_[f].demo_id # caller.demo
      THEN [status |-> 404, detail |-> "File not found"]
    ELSE [status |-> 0, detail |-> None]

\* lines 399-425: 0 = a URL is minted
download_precheck(caller, rows_, f) ==
    IF f \notin DOMAIN rows_
      THEN [status |-> 404, detail |-> "File not found"]
    ELSE IF caller.user # None /\ RoleOf(caller.user) # "admin"
            /\ rows_[f].owner_id # caller.user
      THEN [status |-> 403, detail |-> "Forbidden"]
    ELSE IF caller.user = None /\ caller.demo = None
      THEN [status |-> 401, detail |-> "Start demo at POST /demo/start"]
    ELSE IF caller.user = None /\ rows_[f].demo_id # caller.demo
      THEN [status |-> 404, detail |-> "File not found"]
    ELSE IF rows_[f].state # "ACTIVE"
            /\ (caller.user = None \/ RoleOf(caller.user) # "admin")
      THEN [status |-> 403, detail |-> "File not available for download"]
    ELSE [status |-> 0, detail |-> None]

DownloadUrl(caller, f) ==
    LET pre == download_precheck(caller, rows, f)
    IN /\ IF pre.status # 0
          THEN /\ resp' = HttpError("download_url", caller, f, pre.status, pre.detail)
               /\ UNCHANGED audit
          ELSE /\ Scope.downloads
               /\ \A g \in Files : CountEvents(audit, g, {"DOWNLOAD_URL_ISSUED"}) < MaxDownloads
               /\ audit' = log_event(audit, caller.user, "DOWNLOAD_URL_ISSUED", f, None)
               /\ resp' = [op |-> "download_url", caller |-> caller, file |-> f,
                           status |-> 200, detail |-> None]
       /\ UNCHANGED <<now, users, rows, blobs, counters, seeded, queue, hs, ws, scope, redis, cookies, calls, admitted>>


\* --------------------------------------------------------------- scan_file
ScanReturn(f, ret) == [op |-> "scan_file", file |-> f, ret |-> ret]

\* scan_file lines 85-91, entered with file id f; retries_left is that of the
\* RQ job, or 0 when the function is called directly
ScanEnter(f, retries_left) ==
    LET pre == scan_precheck(rows, f)
        w == IdleWorker
    IN /\ \E x \in Scope.workers : ws[x].pc = "idle"
       /\ IF pre # "go"
          THEN /\ resp' = ScanReturn(f, pre)
               /\ UNCHANGED ws
          ELSE /\ ws' = [ws EXCEPT ![w] = [pc |-> "loaded", file |-> f,
                                           retries_left |-> retries_left,
                                           loaded |-> rows[f], local |-> rows[f],
                                           sample |-> <<>>,
                                           should_validate_office |-> FALSE,
                                           has_counter |-> FALSE, counter |-> NewCounter]]
               /\ resp' = NoResp
       /\ UNCHANGED <<now, users, rows, blobs, counters, seeded, audit, hs, scope, redis, cookies, calls, admitted>>

\* a worker takes the next job of the queue
ScanStart ==
    /\ queue # <<>>
    /\ ScanEnter(Head(queue).file_id, Head(queue).retries_left)
    /\ queue' = Tail(queue)

\* scan_file called directly (tests/integration/test_upload_flow.py:187)
ScanDirect(f) ==
    /\ Scope.direct
    /\ ScanEnter(f, 0)
    /\ UNCHANGED queue

\* lines 93-160 and _get_counter's db.get: blob reads, rules, and either the
\* quarantine commit or the read of the owner's usage counter
ScanRules(w) ==
    /\ ws[w].pc = "loaded"
    /\ LET f == ws[w].file
           out == scan_rules(ws[w].local, blobs[f])
           owner == ws[w].loaded.owner_id
       IN IF out.branch # "pass"
          THEN /\ rows' = [rows EXCEPT ![f] = Flush(@, ws[w].loaded, out.local)]
               /\ audit' = log_event(audit, owner, "SCAN_QUARANTINED", f, out.branch)
               /\ resp' = ScanReturn(f, "quarantined")
               /\ ws' = [ws EXCEPT ![w] = Idle]
          ELSE /\ ws' = [ws EXCEPT ![w] =
                            [@ EXCEPT !.pc = "quota", !.local = out.local,
                                      !.sample = SampleOf(blobs[f]),
                                      !.should_validate_office =
                                          out.should_validate_office,
                                      !.has_counter = owner \in DOMAIN counters,
                                      !.counter = IF owner \in DOMAIN counters
                                                  THEN counters[owner] ELSE NewCounter]]
               /\ resp' = NoResp
               /\ UNCHANGED <<rows, audit>>
    /\ UNCHANGED <<now, users, blobs, counters, seeded, queue, hs, scope, redis, cookies, calls, admitted>>

\* _get_counter lines 22-30 when db.get found no row: INSERT and commit.  The
\* commit also flushes the pending changes of the FileObject (state ACTIVE,
\* size, sniffed type); db.refresh then reloads the counter.
ScanCreateCounter(w) ==
    /\ ws[w].pc = "quota"
    /\ ~ws[w].has_counter
    /\ LET f == ws[w].file
           owner == ws[w].loaded.owner_id
       IN /\ owner \notin DOMAIN counters
          /\ counters' = counters @@ (owner :> NewCounter)
          /\ rows' = [rows EXCEPT ![f] = Flush(@, ws[w].loaded, ws[w].local)]
          /\ ws' = [ws EXCEPT ![w] = [@ EXCEPT !.has_counter = TRUE, !.counter = NewCounter,
                                               !.loaded = ws[w].local]]
    /\ resp' = NoResp
    /\ UNCHANGED <<now, users, blobs, seeded, audit, queue, hs, scope, redis, cookies, calls, admitted>>

\* the same INSERT when another session committed the owner's counter row in
\* between: the primary key is taken, the commit raises, the transaction is
\* rolled back, scan_file logs SCAN_FAIL and re-raises, RQ retries the job
ScanCounterConflict(w) ==
    /\ ws[w].pc = "quota"
    /\ ~ws[w].has_counter
    /\ LET f == ws[w].file
           owner == ws[w].loaded.owner_id
       IN /\ owner \in DOMAIN counters
          /\ audit' = log_event(audit, None, "SCAN_FAIL", f, "IntegrityError")
          /\ queue' = IF ws[w].retries_left > 0
                      THEN Append(queue, [file_id |-> f,
                                          retries_left |-> ws[w].retries_left - 1])
                      ELSE queue
          /\ resp' = ScanReturn(f, "raise")
    /\ ws' = [ws EXCEPT ![w] = Idle]
    /\ UNCHANGED <<now, users, rows, blobs, counters, seeded, hs, scope, redis, cookies, calls, admitted>>

\* increment_on_active lines 41-49 and scan_file lines 166-185
ScanIncrement(w) ==
    /\ ws[w].pc = "quota"
    /\ ws[w].has_counter
    /\ LET f == ws[w].file
           owner == ws[w].loaded.owner_id
           inc == increment_on_active(ws[w].counter, ws[w].local.size_bytes)
       IN IF inc.ok
          THEN /\ counters' = [counters EXCEPT ![owner] =
                                  Flush(@, ws[w].counter,
                                        [files_count |-> inc.files_count,
                                         bytes_stored |-> inc.bytes_stored])]
               /\ rows' = [rows EXCEPT ![f] = Flush(@, ws[w].loaded, ws[w].local)]
               /\ audit' = log_event(audit, owner, "SCAN_PASS", f, None)
               /\ resp' = ScanReturn(f, "active")
          ELSE /\ rows' = [rows EXCEPT ![f] =
                              Flush(@, ws[w].loaded,
                                    [ws[w].local EXCEPT !.state = "QUARANTINED"])]
               /\ audit' = log_event(audit, owner, "SCAN_QUARANTINED", f, "quota_exceeded")
               /\ resp' = ScanReturn(f, "quarantined")
               /\ UNCHANGED counters
    /\ ws' = [ws EXCEPT ![w] = Idle]
    /\ UNCHANGED <<now, users, blobs, seeded, queue, hs, scope, redis, cookies, calls, admitted>>

\* ------------------------------------------------------------ specification
Next ==
    \/ Tick
    \/ \E caller \in Scope.uploaders, payload \in Scope.payloads,
          checksum \in Scope.checksums, size_bytes \in Scope.declared_sizes :
            InitUpload(caller, payload, checksum, size_bytes)
    \/ \E f \in Scope.files, c \in Scope.contents : Put(f, c)
    \/ \E caller \in Scope.callers, f \in Scope.files : CompleteStart(caller, f)
    \/ \E h \in Handlers : CompleteFinish(h)
    \/ \E caller \in Scope.callers, f \in Scope.files : DownloadUrl(caller, f)
    \/ ScanStart
    \/ \E f \in Scope.files : ScanDirect(f)
    \/ \E w \in Workers : ScanRules(w)
    \/ \E w \in Workers : ScanCreateCounter(w)
    \/ \E w \in Workers : ScanCounterConflict(w)
    \/ \E w \in Workers : ScanIncrement(w)

Spec == Init /\ [][Next]_vars

\* ---------------------------------------------------- infrastructure faults
\* The steps above are the runs in which every call to the blob store, the
\* database, Redis and the signer succeeds.  The steps below are the runs in
\* which one of them raises, or the process stops, at the named place.
\*   faults: one upload of doc.pdf by u1 or by the demo session, one handler, one
\*           worker consuming the queue, no clock step and no download
InitFaults ==
    /\ now = 0
    /\ users = Users
    /\ rows = <<>>
    /\ blobs = <<>>
    /\ scope = "faults"
    /\ counters = <<>>
    /\ seeded = counters
    /\ audit = EmptyBag
    /\ queue = <<>>
    /\ hs = [h \in Handlers |-> Idle]
    /\ ws = [w \in Workers |-> Idle]
    /\ resp = NoResp
    /\ redis = <<>>
    /\ cookies = {}
    /\ calls = EmptyBag
    /\ admitted = EmptyBag

\* the response of a call that ended because of the named fault
Fault(op, caller, f, status, name) ==
    [op |-> op, caller |-> caller, file |-> f, status |-> status,
     detail |-> "Internal Server Error", fault |-> name]

\* init_upload lines 153-162: the row is committed, then StorageClient() or
\* generate_presigned_put raises; nothing is logged and the request ends 500
InitPresignFails(caller, payload, checksum, size_bytes) ==
    LET pre == init_precheck(caller, size_bytes, counters)
        f == NextFileId
    IN /\ DOMAIN rows # Scope.files
       /\ pre.status = 0
       /\ counters' = IF caller.user # None /\ caller.user \notin DOMAIN counters
                      THEN counters @@ (caller.user :> NewCounter)
                      ELSE counters
       /\ users' = users \cup {IF caller.user # None THEN caller.user ELSE caller.demo}
       /\ rows' = rows @@ (f :> NewFileObject(caller, payload, checksum,
                                now + upload_presign_ttl_seconds))
       /\ resp' = Fault("init", caller, f, 500, "presign")
       /\ UNCHANGED <<now, blobs, seeded, audit, queue, hs, ws, scope, redis, cookies, calls, admitted>>

\* complete_upload lines 222-248: head_object raises something other than
\* not-found, or iter_object raises while the checksum is computed
CompleteBlobFails(h) ==
    /\ hs[h].pc = "loaded"
    /\ resp' = Fault("complete", hs[h].caller, hs[h].file, 500, "blob_store")
    /\ hs' = [hs EXCEPT ![h] = Idle]
    /\ UNCHANGED <<now, users, rows, blobs, counters, seeded, audit, queue, ws, scope,
                   redis, cookies, calls, admitted>>

\* complete_outcome when the ranged GET fails: get_object_range
\* (storage.py:134-141) swallows the ClientError and returns None, so nothing
\* is sniffed and the policy is evaluated with sniffed type None and no sample
complete_outcome_range_failed(row, blobs_, f) ==
    LET normal == complete_outcome(row, blobs_, f)
    IN IF f \notin DOMAIN blobs_ \/ normal.action = "UPLOAD_REJECTED"
          \/ normal.reason = "demo_size_limit"
       THEN normal
       ELSE
         LET c == blobs_[f]
             checked == [row EXCEPT !.size_bytes = SizeOf(c),
                                    !.checksum_verified = TRUE,
                                    !.sniffed_content_type = None]
             validation == validate_upload_metadata(
                               row.original_filename, row.declared_content_type, None,
                               SizeOf(c), <<>>,
                               IF row.demo_id # None THEN DEMO_MAX_UPLOAD_BYTES ELSE NoSize)
         IN IF ~validation.ok
            THEN [status |-> 200, detail |-> None,
                  local |-> [checked EXCEPT !.state = "QUARANTINED"],
                  action |-> "UPLOAD_QUARANTINED", reason |-> validation.reason,
                  enqueue |-> FALSE]
            ELSE [status |-> 200, detail |-> None,
                  local |-> [checked EXCEPT !.state = "SCANNING"],
                  action |-> "UPLOAD_ENQUEUED", reason |-> None, enqueue |-> TRUE]

\* the rest of complete_upload when the ranged GET of the sample fails
CompleteRangeFails(h) ==
    /\ hs[h].pc = "loaded"
    /\ hs[h].file \in DOMAIN blobs
    /\ LET f == hs[h].file
           caller == hs[h].caller
           normal == complete_outcome(hs[h].loaded, blobs, f)
           out == complete_outcome_range_failed(hs[h].loaded, blobs, f)
       IN /\ normal.action \in {"UPLOAD_ENQUEUED", "UPLOAD_QUARANTINED"}
          /\ normal.reason # "demo_size_limit"
          /\ rows' = [rows EXCEPT ![f] = Flush(@, hs[h].loaded, out.local)]
          /\ audit' = log_event(audit, caller.user, out.action, f, out.reason)
          /\ queue' = IF out.enqueue THEN enqueue_scan(queue, f) ELSE queue
          /\ resp' = [op |-> "complete", caller |-> caller, file |-> f, status |-> 200,
                      detail |-> None, state |-> rows'[f].state, fault |-> "range_get"]
    /\ hs' = [hs EXCEPT ![h] = Idle]
    /\ UNCHANGED <<now, users, blobs, counters, seeded, ws, scope, redis, cookies, calls, admitted>>

\* complete_upload after its db.commit(): log_event (audit.py:9-28, no
\* try/except) raises, or the process stops before it; the request ends 500
\* and enqueue_scan (line 337) is not reached
CompleteLogFails(h) ==
    /\ hs[h].pc = "loaded"
    /\ LET f == hs[h].file
           out == complete_outcome(hs[h].loaded, blobs, f)
       IN /\ out.status = 200
          /\ rows' = [rows EXCEPT ![f] = Flush(@, hs[h].loaded, out.local)]
          /\ resp' = Fault("complete", hs[h].caller, f, 500, "audit")
    /\ hs' = [hs EXCEPT ![h] = Idle]
    /\ UNCHANGED <<now, users, blobs, counters, seeded, audit, queue, ws, scope,
                   redis, cookies, calls, admitted>>

\* complete_upload lines 328-337: commit and UPLOAD_ENQUEUED event done, then
\* enqueue_scan raises (Redis unreachable); the request ends 500
CompleteEnqueueFails(h) ==
    /\ hs[h].pc = "loaded"
    /\ LET f == hs[h].file
           out == complete_outcome(hs[h].loaded, blobs, f)
       IN /\ out.status = 200
          /\ out.enqueue
          /\ rows' = [rows EXCEPT ![f] = Flush(@, hs[h].loaded, out.local)]
          /\ audit' = log_event(audit, hs[h].caller.user, out.action, f, out.reason)
          /\ resp' = Fault("complete", hs[h].caller, f, 500, "queue")
    /\ hs' = [hs EXCEPT ![h] = Idle]
    /\ UNCHANGED <<now, users, blobs, counters, seeded, queue, ws, scope, redis, cookies, calls, admitted>>

\* scan_file's except branch (lines 202-210) and RQ's Retry: the audit table
\* and the queue after an error; logged says whether the SCAN_FAIL event
\* could be appended
scan_fail(bag, q, f, retries_left, error, logged) ==
    [audit |-> IF logged THEN log_event(bag, None, "SCAN_FAIL", f, error) ELSE bag,
     queue |-> IF retries_left > 0
               THEN Append(q, [file_id |-> f, retries_left |-> retries_left - 1])
               ELSE q]

\* scan_file line 94: head_object raises (blob store unreachable, or the
\* object is gone); nothing was assigned yet
ScanBlobFails(w) ==
    /\ ws[w].pc = "loaded"
    /\ CountEvents(audit, ws[w].file, {"SCAN_FAIL"}) < MaxScanFails
    /\ LET f == ws[w].file
           out == scan_fail(audit, queue, f, ws[w].retries_left, "ClientError", TRUE)
       IN /\ audit' = out.audit
          /\ queue' = out.queue
          /\ resp' = ScanReturn(f, "raise") @@ [fault |-> "blob_store"]
    /\ ws' = [ws EXCEPT ![w] = Idle]
    /\ UNCHANGED <<now, users, rows, blobs, counters, seeded, hs, scope, redis, cookies, calls, admitted>>

\* scan_file lines 166-173: counters and ACTIVE are committed, then
\* log_event(SCAN_PASS) raises; the except branch tries to log SCAN_FAIL on
\* the same session, which succeeds or raises as well, and the error goes to RQ
ScanLogFails(w) ==
    /\ ws[w].pc = "quota"
    /\ ws[w].has_counter
    /\ LET f == ws[w].file
           owner == ws[w].loaded.owner_id
           inc == increment_on_active(ws[w].counter, ws[w].local.size_bytes)
       IN /\ inc.ok
          /\ counters' = [counters EXCEPT ![owner] =
                             Flush(@, ws[w].counter,
                                   [files_count |-> inc.files_count,
                                    bytes_stored |-> inc.bytes_stored])]
          /\ rows' = [rows EXCEPT ![f] = Flush(@, ws[w].loaded, ws[w].local)]
          /\ \E logged \in BOOLEAN :
                LET out == scan_fail(audit, queue, f, ws[w].retries_left,
                                     "audit error", logged)
                IN /\ audit' = out.audit
                   /\ queue' = out.queue
          /\ resp' = ScanReturn(f, "raise") @@ [fault |-> "audit"]
    /\ ws' = [ws EXCEPT ![w] = Idle]
    /\ UNCHANGED <<now, users, blobs, seeded, hs, scope, redis, cookies, calls, admitted>>

NextFaults ==
    \/ \E caller \in Scope.uploaders, payload \in Scope.payloads,
          checksum \in Scope.checksums, size_bytes \in Scope.declared_sizes :
            InitUpload(caller, payload, checksum, size_bytes)
    \/ \E f \in Scope.files, c \in Scope.contents : Put(f, c)
    \/ \E caller \in Scope.callers, f \in Scope.files : CompleteStart(caller, f)
    \/ \E h \in Handlers : CompleteFinish(h)
    \/ ScanStart
    \/ \E w \in Workers : ScanRules(w)
    \/ \E w \in Workers : ScanCreateCounter(w)
    \/ \E w \in Workers : ScanIncrement(w)
    \/ \E caller \in Scope.uploaders, payload \in Scope.payloads,
          checksum \in Scope.checksums, size_bytes \in Scope.declared_sizes :
            InitPresignFails(caller, payload, checksum, size_bytes)
    \/ \E h \in Handlers : CompleteBlobFails(h)
    \/ \E h \in Handlers : CompleteRangeFails(h)
    \/ \E h \in Handlers : CompleteLogFails(h)
    \/ \E h \in Handlers : CompleteEnqueueFails(h)
    \/ \E w \in Workers : ScanBlobFails(w)
    \/ \E w \in Workers : ScanLogFails(w)

SpecFaults == InitFaults /\ [][NextFaults]_vars


\* ------------------------------------------------------------- rate limiter
\* Depends(rate_limit_ip(route, limit, window_seconds)) of POST /auth/login
\* and POST /auth/register
AUTH_LOGIN == [kind |-> "ip", route |-> "auth_login", limit |-> 5, window_seconds |-> 60]
AUTH_REGISTER == [kind |-> "ip", route |-> "auth_register", limit |-> 3, window_seconds |-> 60]
RateLimits == {AUTH_LOGIN, AUTH_REGISTER}

\* requests: client address and rate-limited route
RateCalls == {<<"ip1", AUTH_LOGIN>>, <<"ip2", AUTH_REGISTER>>}

current_window(t, window_seconds) == t \div window_seconds

\* the Redis key "rl:ip:<ip>:<route>:<window>"
rate_key(rl, identity, t) ==
    <<"rl", rl.kind, identity, rl.route, current_window(t, rl.window_seconds)>>

\* GET of a key: an expired key is gone
redis_count(store, key, t) ==
    IF key \in DOMAIN store /\ t < store[key].expires_at THEN store[key].count ELSE 0

\* number of INCR calls so far
Requests ==
    LET RECURSIVE Sum(_)
        Sum(K) == IF K = {} THEN 0
                  ELSE LET k == CHOOSE x \in K : TRUE
                       IN redis[k].count + Sum(K \ {k})
    IN Sum(DOMAIN redis)

\* the test on the value INCR returned, without the limit
over_limit_never(count, limit) == FALSE

\* the same test, one request late
over_limit_late(count, limit) == count > limit + 1

\* rate_limit.py:28
over_limit(count, limit) == count > limit

InitRate ==
    /\ now = 0
    /\ users = Users
    /\ rows = <<>>
    /\ blobs = <<>>
    /\ scope = "rate"
    /\ counters = <<>>
    /\ seeded = counters
    /\ audit = EmptyBag
    /\ queue = <<>>
    /\ hs = [h \in Handlers |-> Idle]
    /\ ws = [w \in Workers |-> Idle]
    /\ resp = NoResp
    /\ redis = <<>>
    /\ cookies = {}
    /\ calls = EmptyBag
    /\ admitted = EmptyBag

RateTick ==
    /\ now + RateStep <= MaxRateSteps * RateStep
    /\ now' = now + RateStep
    /\ resp' = NoResp
    /\ UNCHANGED <<users, rows, blobs, counters, seeded, audit, queue, hs, ws, scope,
                   redis, cookies, calls, admitted>>

\* lines 22-27: the key of the current window, INCR, and EXPIRE on the
\* first increment.  INCR is one atomic Redis command.
RateIncr(ip, rl) ==
    LET key == rate_key(rl, ip, now)
        count == redis_count(redis, key, now) + 1
        entry == [count |-> count,
                  expires_at |-> IF count = 1 THEN now + rl.window_seconds
                                 ELSE redis[key].expires_at]
    IN /\ Requests < MaxRequests
       /\ BagCardinality(calls) < MaxInFlight
       /\ redis' = [k \in DOMAIN redis \cup {key} |-> IF k = key THEN entry ELSE redis[k]]
       /\ calls' = calls (+) SetToBag({[ip |-> ip, rl |-> rl, count |-> count, at |-> now]})
       /\ resp' = NoResp
       /\ UNCHANGED <<now, users, rows, blobs, counters, seeded, audit, queue, hs, ws,
                      scope, cookies, admitted>>

\* lines 28-29: 429 when the count is over the limit, else the request goes
\* on to its handler
RateDecide(call) ==
    /\ BagIn(call, calls)
    /\ calls' = calls (-) SetToBag({call})
    /\ IF over_limit(call.count, call.rl.limit)
       THEN /\ resp' = [op |-> call.rl.route, ip |-> call.ip, at |-> call.at,
                        status |-> 429, detail |-> "rate limit exceeded"]
            /\ UNCHANGED admitted
       ELSE /\ resp' = [op |-> call.rl.route, ip |-> call.ip, at |-> call.at,
                        status |-> 0, detail |-> None]
            /\ admitted' = admitted (+) SetToBag({[ip |-> call.ip, rl |-> call.rl,
                                                   at |-> call.at]})
    /\ UNCHANGED <<now, users, rows, blobs, counters, seeded, audit, queue, hs, ws,
                   scope, redis, cookies>>

NextRate ==
    \/ RateTick
    \/ \E c \in RateCalls : RateIncr(c[1], c[2])
    \/ \E call \in BagToSet(calls) : RateDecide(call)

SpecRate == InitRate /\ [][NextRate]_vars

\* --------------------------------------------------------------- demo token
\* A string is a sequence of pieces: Text(x) is a piece of text without the
\* separator, Num(n) the decimal digits of n, Dot the character ".", and
\* Hex(p) the hex HMAC-SHA256 of the string p under the server's secret.
Text(x) == [text |-> x]
Num(n) == [num |-> n]
Hex(payload) == [hmac |-> payload]
Dot == [text |-> "."]

\* the return value None of verify_demo_token, among strings
NoDemoId == <<>>

\* base64.urlsafe_b64encode / urlsafe_b64decode: decoding what was not
\* encoded raises
b64encode(str) == [b64 |-> str]
IsB64(token) == "b64" \in DOMAIN token

\* int(str) raises ValueError unless str is one number
IsInt(str) == Len(str) = 1 /\ "num" \in DOMAIN str[1]

\* str.split(".", maxsplit)
RECURSIVE split(_, _)
split(str, maxsplit) ==
    IF maxsplit = 0 \/ \A i \in 1..Len(str) : str[i] # Dot
    THEN <<str>>
    ELSE LET i == CHOOSE j \in 1..Len(str) :
                      str[j] = Dot /\ \A k \in 1..(j - 1) : str[k] # Dot
         IN <<SubSeq(str, 1, i - 1)>> \o split(SubSeq(str, i + 1, Len(str)), maxsplit - 1)

\* deps.py:66-77, called at time t
create_demo_token(demo_id, expires_in, t) ==
    LET issued_at == t
        payload == demo_id \o <<Dot, Num(issued_at), Dot, Num(expires_in)>>
        signature == Hex(payload)
    IN b64encode(payload \o <<Dot, signature>>)

\* verify_demo_token without the comparison of the signature
verify_demo_token_unsigned(token, t) ==
    IF ~IsB64(token) THEN NoDemoId
    ELSE LET parts == split(token.b64, 3)
         IN IF Len(parts) # 4 THEN NoDemoId
            ELSE IF ~IsInt(parts[2]) \/ ~IsInt(parts[3]) THEN NoDemoId
            ELSE IF t > parts[2][1].num + parts[3][1].num THEN NoDemoId
            ELSE parts[1]

\* deps.py:80-100, called at time t: the demo id, or None
verify_demo_token(token, t) ==
    IF ~IsB64(token) THEN NoDemoId
    ELSE LET parts == split(token.b64, 3)
         IN IF Len(parts) # 4 THEN NoDemoId
            ELSE LET demo_id == parts[1]
                     issued_at_str == parts[2]
                     expires_in_str == parts[3]
                     signature == parts[4]
                     payload == demo_id \o <<Dot>> \o issued_at_str \o <<Dot>>
                                    \o expires_in_str
                     expected == <<Hex(payload)>>
                 IN IF signature # expected THEN NoDemoId
                    ELSE IF ~IsInt(issued_at_str) \/ ~IsInt(expires_in_str) THEN NoDemoId
                    ELSE IF t > issued_at_str[1].num + expires_in_str[1].num THEN NoDemoId
                    ELSE demo_id

\* demo ids: str(uuid.uuid4()) as /demo/start passes it, and a string that
\* contains the separator
UuidIds == {<<Text("d1")>>, <<Text("d2")>>}
DemoIds == UuidIds \cup {<<Text("d"), Dot, Text("x")>>}
Ttls == {0, 2}

\* what a client without the secret can make of a token it holds: another
\* id, a longer lifetime, a signature that is not the server's, a signature
\* cut off, the string without the base64 layer
Forgeries(token) ==
    LET str == token.b64
        n == Len(str)
    IN { b64encode(<<Text("d9")>> \o Tail(str)),
         b64encode([str EXCEPT ![n - 2] = Num(@.num + 10)]),
         b64encode([str EXCEPT ![n] = Text("00")]),
         b64encode(SubSeq(str, 1, n - 2)),
         [raw |-> str] }

InitToken ==
    /\ now = 0
    /\ users = Users
    /\ rows = <<>>
    /\ blobs = <<>>
    /\ scope = "token"
    /\ counters = <<>>
    /\ seeded = counters
    /\ audit = EmptyBag
    /\ queue = <<>>
    /\ hs = [h \in Handlers |-> Idle]
    /\ ws = [w \in Workers |-> Idle]
    /\ resp = NoResp
    /\ redis = <<>>
    /\ cookies = {}
    /\ calls = EmptyBag
    /\ admitted = EmptyBag

TokenTick ==
    /\ now < MaxTokenClock
    /\ now' = now + 1
    /\ resp' = NoResp
    /\ UNCHANGED <<users, rows, blobs, counters, seeded, audit, queue, hs, ws, scope,
                   redis, cookies, calls, admitted>>

\* a cookie is made for the demo id with the lifetime given
DemoStart(demo_id, expires_in) ==
    /\ Cardinality(cookies) < MaxCookies
    /\ cookies' = cookies \cup {[token |-> create_demo_token(demo_id, expires_in, now),
                                 demo_id |-> demo_id, issued_at |-> now,
                                 expires_in |-> expires_in]}
    /\ resp' = NoResp
    /\ UNCHANGED <<now, users, rows, blobs, counters, seeded, audit, queue, hs, ws, scope,
                   redis, calls, admitted>>

\* get_demo_id (deps.py:103-107) for a request that carries the cookie
VerifyCookie(cookie) ==
    /\ resp' = [op |-> "verify_demo_token", cookie |-> cookie, forged |-> FALSE,
                ret |-> verify_demo_token(cookie.token, now)]
    /\ UNCHANGED <<now, users, rows, blobs, counters, seeded, audit, queue, hs, ws, scope,
                   redis, cookies, calls, admitted>>

\* get_demo_id for a request that carries a forgery of the cookie
VerifyForged(cookie, token) ==
    /\ resp' = [op |-> "verify_demo_token", cookie |-> cookie, forged |-> TRUE,
                ret |-> verify_demo_token(token, now)]
    /\ UNCHANGED <<now, users, rows, blobs, counters, seeded, audit, queue, hs, ws, scope,
                   redis, cookies, calls, admitted>>

NextToken ==
    \/ TokenTick
    \/ \E demo_id \in DemoIds, expires_in \in Ttls : DemoStart(demo_id, expires_in)
    \/ \E cookie \in cookies : VerifyCookie(cookie)
    \/ \E cookie \in cookies : \E token \in Forgeries(cookie.token) :
          VerifyForged(cookie, token)

SpecToken == InitToken /\ [][NextToken]_vars

\* SpecFaults with the scheduling the deployment gives: the worker process
\* keeps taking jobs and running them (weak fairness of every step of
\* scan_file), and a call to the blob store or the database that is tried
\* again and again eventually succeeds (strong fairness of the steps that
\* need an answer).  Requests of clients are under no obligation.
FairFaults ==
    /\ WF_vars(ScanStart)
    /\ \A w \in Workers : /\ SF_vars(ScanRules(w))
                          /\ SF_vars(ScanCreateCounter(w))
                          /\ SF_vars(ScanIncrement(w))
    /\ \A h \in Handlers : SF_vars(CompleteFinish(h))

SpecFaultsFair == InitFaults /\ [][NextFaults]_vars /\ FairFaults

\* ------------------------------------------------- pure functions, applied
\* The state table of services/state.py and the upload policy are functions of
\* their arguments only.  SpecPure calls them on arguments drawn from bounded
\* sets and keeps the call and its result in resp.
ALLOWED_TRANSITIONS ==
    [ INITIATED   |-> {"UPLOADED", "REJECTED", "QUARANTINED"},
      UPLOADED    |-> {"SCANNING", "ACTIVE", "QUARANTINED"},
      SCANNING    |-> {"ACTIVE", "QUARANTINED"},
      ACTIVE      |-> {},
      QUARANTINED |-> {"REJECTED"},
      REJECTED    |-> {} ]

\* target in ALLOWED_TRANSITIONS.get(current, set())
can_transition(current, target) ==
    target \in (IF current \in DOMAIN ALLOWED_TRANSITIONS
                THEN ALLOWED_TRANSITIONS[current] ELSE {})

\* the arguments of the calls; each argument comes with the extension or base
\* type a reader takes it to have (ext, base), which the functions never see
PolicyFilenames ==
    { [raw |-> <<"doc", ".pdf">>, ext |-> ".pdf"],
      [raw |-> <<"DOC", ".PDF">>, ext |-> ".pdf"],
      [raw |-> <<"note", ".txt">>, ext |-> ".txt"],
      [raw |-> <<"resume", ".docx">>, ext |-> ".docx"],
      [raw |-> <<"pic", ".gif">>, ext |-> ".gif"],
      [raw |-> <<"malware", ".exe">>, ext |-> ".exe"],
      [raw |-> <<"backup", ".pdf", ".gz">>, ext |-> ".gz"],
      [raw |-> <<"", ".pdf">>, ext |-> ""],
      [raw |-> <<"README">>, ext |-> ""] }

PolicyDeclared ==
    { [raw |-> <<"application/pdf">>, base |-> "application/pdf"],
      [raw |-> <<"Application/PDF">>, base |-> "application/pdf"],
      [raw |-> <<"text/plain", ";", " ", "charset=utf-8">>, base |-> "text/plain"],
      [raw |-> <<" ", "Text/Plain", " ", ";", "charset=utf-8">>, base |-> "text/plain"],
      [raw |-> <<DOCX_MIME>>, base |-> DOCX_MIME],
      [raw |-> <<ZIP_MIME>>, base |-> ZIP_MIME],
      [raw |-> <<"image/gif">>, base |-> "image/gif"],
      [raw |-> <<>>, base |-> None] }

PolicySniffed ==
    { [raw |-> "application/pdf", base |-> "application/pdf"],
      [raw |-> "text/plain", base |-> "text/plain"],
      [raw |-> "Text/Plain", base |-> "text/plain"],
      [raw |-> ZIP_MIME, base |-> ZIP_MIME],
      [raw |-> "image/gif", base |-> "image/gif"],
      [raw |-> "", base |-> None],
      [raw |-> None, base |-> None] }

PureCalls ==
    { [op |-> "call", fn |-> "can_transition", current |-> current, target |-> target] :
        current \in FileObjectState, target \in FileObjectState }
    \cup
    { [op |-> "call", fn |-> "validate_upload_metadata", filename |-> n, declared |-> d,
       sniffed |-> s, size_bytes |-> z, sample_bytes |-> b, max_size_bytes |-> m] :
        n \in PolicyFilenames, d \in PolicyDeclared, s \in PolicySniffed,
        z \in {NoSize, 11, DEMO_MAX_UPLOAD_BYTES + 1},
        b \in {<<>>, PDF_MAGIC \o <<49>>, PK_MAGIC, GIF89_MAGIC \o <<1>>, <<104, 105>>},
        m \in {NoSize, 10, DEMO_MAX_UPLOAD_BYTES, DEFAULT_MAX_SIZE_BYTES} }

\* resp holds the call that is about to be made
InitPure ==
    /\ now = 0
    /\ users = Users
    /\ rows = <<>>
    /\ blobs = <<>>
    /\ scope = "pure"
    /\ counters = <<>>
    /\ seeded = counters
    /\ audit = EmptyBag
    /\ queue = <<>>
    /\ hs = [h \in Handlers |-> Idle]
    /\ ws = [w \in Workers |-> Idle]
    /\ resp \in PureCalls
    /\ redis = <<>>
    /\ cookies = {}
    /\ calls = EmptyBag
    /\ admitted = EmptyBag

\* the call can_transition(current, target)
CanTransition ==
    /\ resp.op = "call" /\ resp.fn = "can_transition"
    /\ resp' = [op |-> "can_transition", current |-> resp.current, target |-> resp.target,
                result |-> can_transition(resp.current, resp.target)]
    /\ UNCHANGED <<now, users, rows, blobs, counters, seeded, audit, queue, hs, ws,
                   scope, redis, cookies, calls, admitted>>

\* the call validate_upload_metadata(...)
ValidateUpload ==
    /\ resp.op = "call" /\ resp.fn = "validate_upload_metadata"
    /\ resp' = [op |-> "validate_upload_metadata", args |-> resp,
                result |-> validate_upload_metadata(
                               resp.filename.raw, resp.declared.raw, resp.sniffed.raw,
                               resp.size_bytes, resp.sample_bytes, resp.max_size_bytes)]
    /\ UNCHANGED <<now, users, rows, blobs, counters, seeded, audit, queue, hs, ws,
                   scope, redis, cookies, calls, admitted>>

NextPure ==
    \/ CanTransition
    \/ ValidateUpload

SpecPure == InitPure /\ [][NextPure]_vars

\* ================================================================== claims
TerminalStates == {"ACTIVE", "QUARANTINED", "REJECTED"}

LegalTransitions ==
    { <<"INITIATED", "SCANNING">>, <<"INITIATED", "REJECTED">>,
      <<"INITIATED", "QUARANTINED">>, <<"SCANNING", "ACTIVE">>,
      <<"SCANNING", "QUARANTINED">> }

\* caller passes the ownership check of complete_upload / download_url for row
Authorized(caller, row) ==
    IF caller.user # None
    THEN RoleOf(caller.user) = "admin" \/ row.owner_id = caller.user
    ELSE caller.demo # None /\ row.demo_id = caller.demo

IsAdmin(caller) == caller.user # None /\ RoleOf(caller.user) = "admin"

ScanOutcomes == {"SCAN_PASS", "SCAN_QUARANTINED"}

\* C1: every change of a row's committed state is one of the five legal
\* transitions, UPLOADED is never written and no row leaves a terminal state.
C1_OnlyLegalTransitions ==
    [][\A f \in DOMAIN rows :
          /\ rows'[f].state # "UPLOADED"
          /\ rows'[f].state # rows[f].state
                => <<rows[f].state, rows'[f].state>> \in LegalTransitions]_vars

\* C2: in every reachable state a file that is ACTIVE has checksum_verified.
C2_ActiveIsVerified ==
    \A f \in DOMAIN rows : rows[f].state = "ACTIVE" => rows[f].checksum_verified

\* C2 witness: a file is ACTIVE although an overlapping complete_upload run
\* found a checksum mismatch for it.
C2_Witness ==
    \E f \in DOMAIN rows :
        /\ rows[f].state = "ACTIVE"
        /\ CountEvents(audit, f, {"UPLOAD_REJECTED"}) >= 1

\* C3: in the step in which a scan_file run makes a file ACTIVE, the file-type
\* policy accepts the file name, the declared type, the type and sample the
\* run read, and the size, with max_size_bytes = 50 MiB.
C3_PolicyHoldsAtActivation ==
    [][\A w \in Workers :
          (/\ ws[w].pc = "quota"
           /\ ws'[w] # ws[w]
           /\ rows[ws[w].file].state # "ACTIVE"
           /\ rows'[ws[w].file].state = "ACTIVE")
          => validate_upload_metadata(
                 ws[w].local.original_filename, ws[w].local.declared_content_type,
                 ws[w].local.sniffed_content_type, ws[w].local.size_bytes,
                 ws[w].sample, DEFAULT_MAX_SIZE_BYTES).ok]_vars

\* C4: download_url mints a URL (status 200, one DOWNLOAD_URL_ISSUED event)
\* for a non-admin only if the caller passes the ownership check and the file
\* is ACTIVE; the owner or demo session of a file in any other state gets 403
\* and no event; an admin gets a URL for every existing file.
C4_DownloadGatedOnActive ==
    [][resp'.op = "download_url" =>
          LET caller == resp'.caller
              f == resp'.file
              issued == CountEvents(audit', f, {"DOWNLOAD_URL_ISSUED"})
                        - CountEvents(audit, f, {"DOWNLOAD_URL_ISSUED"})
          IN /\ issued = (IF resp'.status = 200 THEN 1 ELSE 0)
             /\ (resp'.status = 200 /\ ~IsAdmin(caller))
                   => /\ f \in DOMAIN rows
                      /\ Authorized(caller, rows[f])
                      /\ rows[f].state = "ACTIVE"
             /\ (f \in DOMAIN rows /\ ~IsAdmin(caller) /\ Authorized(caller, rows[f])
                 /\ rows[f].state # "ACTIVE")
                   => /\ resp'.status = 403
                      /\ audit' = audit
             /\ (f \in DOMAIN rows /\ IsAdmin(caller)) => resp'.status = 200]_vars

\* C4 witness: the owner of an ACTIVE file has just been given a URL.
C4_Witness ==
    /\ resp.op = "download_url"
    /\ resp.status = 200
    /\ ~IsAdmin(resp.caller)
    /\ rows[resp.file].state = "ACTIVE"

\* C5: the step that makes a file ACTIVE is the step that adds 1 and the
\* file's size to the owner's usage counter.
C5_ActiveWithIncrement ==
    [][\A f \in DOMAIN rows :
          (rows[f].state # "ACTIVE" /\ rows'[f].state = "ACTIVE")
          => LET o == rows[f].owner_id
                 before == IF o \in DOMAIN counters THEN counters[o] ELSE NewCounter
             IN /\ o \in DOMAIN counters'
                /\ counters'[o].files_count = before.files_count + 1
                /\ counters'[o].bytes_stored = before.bytes_stored + rows'[f].size_bytes]_vars

\* C6: every usage counter stays within MAX_FILES and MAX_BYTES.
C6_CountersWithinLimits ==
    \A o \in DOMAIN counters :
        /\ counters[o].files_count <= MAX_FILES
        /\ counters[o].bytes_stored <= MAX_BYTES

\* C6 witness: a counter seeded one below MAX_FILES was incremented to
\* MAX_FILES and a further activation was refused with quota_exceeded.
C6_Witness ==
    \E o \in DOMAIN counters :
        /\ o \in DOMAIN seeded
        /\ seeded[o].files_count = MAX_FILES - 1
        /\ counters[o].files_count = MAX_FILES
        /\ \E f \in DOMAIN rows :
              /\ rows[f].owner_id = o
              /\ Event(o, "SCAN_QUARANTINED", f, "quota_exceeded") \in BagToSet(audit)

\* files of owner o that are ACTIVE
ActiveFiles(o) == {f \in DOMAIN rows : rows[f].owner_id = o /\ rows[f].state = "ACTIVE"}

\* C7: the files admitted for an owner fit into what the owner's counter had
\* left: with one slot (or too few bytes for two files) left, at most one of
\* two concurrently scanned files becomes ACTIVE.
C7_AdmissionsFitQuota ==
    \A o \in DOMAIN seeded :
        LET active == ActiveFiles(o)
            bytes == IF active = {} THEN 0
                     ELSE IF Cardinality(active) = 1
                       THEN rows[CHOOSE f \in active : TRUE].size_bytes
                     ELSE rows["f1"].size_bytes + rows["f2"].size_bytes
        IN /\ seeded[o].files_count + Cardinality(active) <= MAX_FILES
           /\ seeded[o].bytes_stored + bytes <= MAX_BYTES

C9_OneScanOutcome ==
    \A f \in DOMAIN rows :
        CountEvents(audit, f, {"UPLOAD_ENQUEUED"}) <= 1
        => CountEvents(audit, f, ScanOutcomes) <= 1

\* a complete_upload call for file f ends at its precondition checks in this
\* step / passes them in this step
CompleteRefused(f) == resp'.op = "complete" /\ resp'.file = f /\ hs' = hs
CompleteAdmitted(f) ==
    \E h \in Handlers : hs[h].pc = "idle" /\ hs'[h].pc = "loaded" /\ hs'[h].file = f

BadState(r) == r.status = 400 /\ r.detail = "Upload not in INITIATED state"

\* C10 as stated: once the file has left INITIATED, every complete call made
\* for it fails with bad_state and changes nothing.
C10_EveryLaterCompleteIsBadState ==
    [][\A f \in DOMAIN rows :
          rows[f].state # "INITIATED"
          => /\ ~CompleteAdmitted(f)
             /\ CompleteRefused(f)
                   => /\ BadState(resp')
                      /\ rows' = rows /\ audit' = audit /\ queue' = queue]_vars

\* C10 amended: once the file has left INITIATED, no complete call made for it
\* gets past the precondition checks and none changes a row, the audit log or
\* the queue; a call by the owner, an admin or the file's demo session fails
\* with bad_state.
C10_LaterCompleteByOwnerIsBadState ==
    [][\A f \in DOMAIN rows :
          rows[f].state # "INITIATED"
          => /\ ~CompleteAdmitted(f)
             /\ CompleteRefused(f)
                   => /\ rows' = rows /\ audit' = audit /\ queue' = queue
                      /\ Authorized(resp'.caller, rows[f]) => BadState(resp')]_vars

\* C10 witness: the owner's second complete call for a file that the first
\* one moved to SCANNING has just failed with bad_state.
C10_Witness ==
    /\ resp.op = "complete"
    /\ BadState(resp)
    /\ resp.file \in DOMAIN rows
    /\ Authorized(resp.caller, rows[resp.file])
    /\ CountEvents(audit, resp.file, {"UPLOAD_ENQUEUED"}) = 1

CompleteOutcomes == {"UPLOAD_ENQUEUED", "UPLOAD_REJECTED", "UPLOAD_QUARANTINED"}

\* C11: of the complete calls made for one file, overlapping or not, only one
\* gets to write a result: the file has at most one complete outcome event
\* (so at most one UPLOAD_ENQUEUED and one scan job), and a call that
\* commits a result finds the row as it loaded it.
C11_OneCompleteWins ==
    [][\A h \in Handlers :
          (hs[h].pc = "loaded" /\ hs'[h].pc = "idle" /\ resp'.status = 200)
          => /\ rows[hs[h].file] = hs[h].loaded
             /\ CountEvents(audit', hs[h].file, CompleteOutcomes) <= 1
             /\ Len(queue') <= Len(queue) + 1]_vars

\* a complete_upload call of the handler h ends in this step, with the blob
\* of its file present
CompleteEnds(h) ==
    /\ hs[h].pc = "loaded"
    /\ hs'[h].pc = "idle"
    /\ hs[h].file \in DOMAIN blobs

\* the complete_upload call that ends in this step logged exactly one event,
\* with this action and reason, and nothing else
LoggedOnce(h, action, reason) ==
    audit' = log_event(audit, hs[h].caller.user, action, hs[h].file, reason)

\* the owner of the row, as a caller
OwnerOf(row) ==
    IF row.demo_id # None THEN DemoSession(row.demo_id) ELSE Bearer(row.owner_id)

\* the blob is over the demo limit, which complete_upload tests first
DemoOversize(row, c) ==
    row.demo_id # None /\ SizeOf(c) # 0 /\ SizeOf(c) > DEMO_MAX_UPLOAD_BYTES

Expired(r) == r.status = 400 /\ r.detail = "Upload request expired"

\* C12 as stated, read for callers that pass the access checks: every complete
\* call made after the file's upload_expires_at fails with expired and changes
\* no row, audit event or queue entry.
C12_EveryLateCompleteIsExpired ==
    [][\A f \in DOMAIN rows :
          now > rows[f].upload_expires_at
          => /\ ~CompleteAdmitted(f)
             /\ (CompleteRefused(f) /\ Authorized(resp'.caller, rows[f]))
                   => /\ Expired(resp')
                      /\ rows' = rows /\ audit' = audit /\ queue' = queue]_vars

\* C12 amended: no complete call made after upload_expires_at gets past the
\* precondition checks or changes a row, the audit log or the queue, whatever
\* the blob store holds; the call fails with expired when the caller passes
\* the access checks and the row is still INITIATED (the access and state
\* checks come first and answer with their own errors).
C12_LateCompleteChangesNothing ==
    [][\A f \in DOMAIN rows :
          now > rows[f].upload_expires_at
          => /\ ~CompleteAdmitted(f)
             /\ CompleteRefused(f)
                   => /\ rows' = rows /\ audit' = audit /\ queue' = queue
                      /\ (Authorized(resp'.caller, rows[f])
                          /\ rows[f].state = "INITIATED") => Expired(resp')
                      /\ (Authorized(resp'.caller, rows[f])
                          /\ rows[f].state # "INITIATED") => BadState(resp')]_vars

\* C12 witness: a complete call for an INITIATED file whose blob is in the
\* store has just failed with expired.
C12_Witness ==
    /\ resp.op = "complete"
    /\ Expired(resp)
    /\ resp.file \in DOMAIN blobs
    /\ rows[resp.file].state = "INITIATED"

ObjectNotUploaded(r) == r.status = 400 /\ r.detail = "Object not uploaded"

\* C13: a complete call that finds no blob fails with object_not_uploaded and
\* changes no row, audit event or queue entry; the row is still INITIATED as
\* the call loaded it, so that a later complete by the same caller passes the
\* precondition checks (until expiry) and, once a blob is there, does what a
\* first complete does with that blob.  No other complete call answers
\* object_not_uploaded.
C13_MissingBlobLeavesRowInitiated ==
    [][\A h \in Handlers :
          (hs[h].pc = "loaded" /\ hs'[h].pc = "idle")
          => LET f == hs[h].file
             IN /\ (f \notin DOMAIN blobs) = ObjectNotUploaded(resp')
                /\ f \notin DOMAIN blobs
                     => /\ rows' = rows /\ audit' = audit /\ queue' = queue
                        /\ rows'[f] = hs[h].loaded
                        /\ rows'[f].state = "INITIATED"
                        /\ now' <= rows'[f].upload_expires_at
                             => complete_precheck(hs[h].caller, rows', f, now').status = 0
                        /\ \A c \in Contents :
                              complete_outcome(rows'[f], (f :> c), f)
                                = complete_outcome(hs[h].loaded, (f :> c), f)]_vars

\* C13 witness: complete has just failed with object_not_uploaded for an
\* INITIATED file that has no blob.
C13_Witness ==
    /\ resp.op = "complete"
    /\ ObjectNotUploaded(resp)
    /\ resp.file \notin DOMAIN blobs
    /\ rows[resp.file].state = "INITIATED"

\* C14: a complete call that computes a SHA-256 different from the row's
\* checksum_sha256 leaves the row REJECTED with checksum_verified = false,
\* logs exactly one UPLOAD_REJECTED event with reason checksum_mismatch,
\* enqueues nothing, and the owner's download-url request then gets 403.
C14_MismatchRejects ==
    [][\A h \in Handlers :
          (/\ CompleteEnds(h)
           /\ ~DemoOversize(hs[h].loaded, blobs[hs[h].file])
           /\ Sha256Of(blobs[hs[h].file]) # hs[h].loaded.checksum_sha256)
          => LET f == hs[h].file
             IN /\ rows'[f].state = "REJECTED"
                /\ ~rows'[f].checksum_verified
                /\ LoggedOnce(h, "UPLOAD_REJECTED", "checksum_mismatch")
                /\ queue' = queue
                /\ download_precheck(OwnerOf(rows'[f]), rows', f).status = 403]_vars

\* C15: a complete call that succeeds (status 200, state SCANNING) computed
\* a SHA-256 equal to the declared checksum and leaves checksum_verified =
\* true on the committed row; it is the call that logs UPLOAD_ENQUEUED.
C15_SuccessIsVerified ==
    [][\A h \in Handlers :
          (CompleteEnds(h) /\ resp'.status = 200
           /\ (resp'.state = "SCANNING" \/ queue' # queue))
          => LET f == hs[h].file
             IN /\ Sha256Of(blobs[f]) = hs[h].loaded.checksum_sha256
                /\ rows'[f].checksum_sha256 = hs[h].loaded.checksum_sha256
                /\ rows'[f].checksum_verified
                /\ rows'[f].state = "SCANNING"
                /\ LoggedOnce(h, "UPLOAD_ENQUEUED", None)]_vars

\* C15 witness: a complete call has just moved a file to SCANNING.
C15_Witness ==
    /\ resp.op = "complete"
    /\ resp.status = 200
    /\ resp.state = "SCANNING"
    /\ rows[resp.file].checksum_verified
    /\ Len(queue) >= 1

\* the verdict of the file-type policy on what complete_upload reads
PolicyAtComplete(row, c) ==
    validate_upload_metadata(
        row.original_filename, row.declared_content_type, magic_from_buffer(c),
        SizeOf(c), SampleOf(c),
        IF row.demo_id # None THEN DEMO_MAX_UPLOAD_BYTES ELSE NoSize)

\* C16: a complete call whose checksum matches and whose policy check fails
\* leaves the row QUARANTINED, logs exactly one UPLOAD_QUARANTINED event
\* carrying the policy's reason code, enqueues nothing, and the owner's
\* download-url request then gets 403.
C16_PolicyFailureQuarantines ==
    [][\A h \in Handlers :
          (/\ CompleteEnds(h)
           /\ ~DemoOversize(hs[h].loaded, blobs[hs[h].file])
           /\ Sha256Of(blobs[hs[h].file]) = hs[h].loaded.checksum_sha256
           /\ ~PolicyAtComplete(hs[h].loaded, blobs[hs[h].file]).ok)
          => LET f == hs[h].file
                 reason == PolicyAtComplete(hs[h].loaded, blobs[f]).reason
             IN /\ rows'[f].state = "QUARANTINED"
                /\ LoggedOnce(h, "UPLOAD_QUARANTINED", reason)
                /\ reason # None
                /\ queue' = queue
                /\ download_precheck(OwnerOf(rows'[f]), rows', f).status = 403]_vars

\* C16 witness: doc.pdf declared application/pdf whose bytes sniff as
\* text/plain is QUARANTINED with reason sniff_mismatch.
C16_Witness ==
    \E f \in DOMAIN rows :
        /\ rows[f].state = "QUARANTINED"
        /\ rows[f].original_filename = PayloadPdf.original_filename
        /\ rows[f].sniffed_content_type = "text/plain"
        /\ \E e \in BagToSet(audit) :
              /\ e.file_id = f /\ e.action = "UPLOAD_QUARANTINED"
              /\ e.reason = "sniff_mismatch"

\* a complete call of handler h ends in this step for a .docx upload declared
\* with the wordprocessingml type, whose checksum matches and whose bytes do
\* not start with PK\x03\x04
DocxWithoutZipMagic(h) ==
    /\ CompleteEnds(h)
    /\ Lower(PathSuffix(hs[h].loaded.original_filename)) = ".docx"
    /\ base_mime(hs[h].loaded.declared_content_type) = DOCX_MIME
    /\ ~DemoOversize(hs[h].loaded, blobs[hs[h].file])
    /\ Sha256Of(blobs[hs[h].file]) = hs[h].loaded.checksum_sha256
    /\ ~StartsWith(SampleOf(blobs[hs[h].file]), PK_MAGIC)

C18_InitRefusedAtFileLimit ==
    [][(resp'.op = "init" /\ resp'.caller.user # None)
          => LET u == resp'.caller.user
                 before == IF u \in DOMAIN counters THEN counters[u] ELSE NewCounter
             IN /\ (resp'.status = 403) = (before.files_count >= MAX_FILES)
                /\ resp'.status \in {200, 403}
                /\ resp'.status = 403
                     => /\ resp'.detail = "quota exceeded"
                        /\ rows' = rows /\ audit' = audit /\ queue' = queue
                /\ resp'.status = 200
                     => /\ resp'.file \notin DOMAIN rows
                        /\ resp'.file \in DOMAIN rows'
                        /\ rows'[resp'.file].owner_id = u]_vars

\* C18 witness: init has just been refused for a user whose counter was
\* seeded with MAX_FILES files.
C18_Witness ==
    /\ resp.op = "init"
    /\ resp.status = 403
    /\ resp.caller.user # None
    /\ seeded[resp.caller.user].files_count = MAX_FILES
    /\ rows = <<>>
    /\ audit = EmptyBag

\* the OOXML type an office extension stands for, None for other extensions
OfficeTypeOf(filename) ==
    LET ext == Lower(PathSuffix(filename))
    IN CASE ext = ".docx" -> DOCX_MIME
         [] ext = ".xlsx" -> XLSX_MIME
         [] ext = ".pptx" -> PPTX_MIME
         [] OTHER -> None

\* C19: a scan_file run makes a file with an office extension ACTIVE only
\* after it has parsed the blob as a ZIP archive with the entries of the
\* extension's type, and a run that reads a blob that is no such archive
\* (and is not quarantined for its size) quarantines the file with reason
\* office_zip_invalid.
C19_OfficeFilesAreZipChecked ==
    [][\A w \in Workers :
          LET f == ws[w].file
              type == OfficeTypeOf(ws[w].loaded.original_filename)
          IN /\ (/\ ws[w].pc = "quota"
                 /\ type # None
                 /\ rows[f].state # "ACTIVE"
                 /\ rows'[f].state = "ACTIVE")
                => ws[w].should_validate_office
             /\ (/\ ws[w].pc = "loaded"
                 /\ ws'[w] # ws[w]
                 /\ type # None
                 /\ SizeOf(blobs[f]) <= MAX_SIZE_BYTES
                 /\ ~is_valid_office_zip(blobs[f], type))
                => /\ rows'[f].state = "QUARANTINED"
                   /\ audit' = log_event(audit, rows[f].owner_id, "SCAN_QUARANTINED",
                                         f, "office_zip_invalid")]_vars

\* the counter row of owner o in table t, a missing row read as (0, 0)
CounterOf(t, o) == IF o \in DOMAIN t THEN t[o] ELSE NewCounter

\* C20: the values of a usage counter change only in a step in which a file
\* of its owner goes from SCANNING to ACTIVE, and every such step adds
\* exactly 1 and the file's size_bytes; all other steps (init, complete,
\* download_url, scan runs that end quarantined, skip, missing or raise)
\* leave every counter's values as they were.
C20_CountersFollowActivations ==
    [][/\ \A o \in DOMAIN counters' :
            CounterOf(counters', o) # CounterOf(counters, o)
            => \E f \in DOMAIN rows :
                  /\ rows[f].owner_id = o
                  /\ rows[f].state = "SCANNING"
                  /\ rows'[f].state = "ACTIVE"
       /\ \A f \in DOMAIN rows :
            (rows[f].state = "SCANNING" /\ rows'[f].state = "ACTIVE")
            => LET o == rows[f].owner_id
               IN /\ CounterOf(counters', o).files_count
                       = CounterOf(counters, o).files_count + 1
                  /\ CounterOf(counters', o).bytes_stored
                       = CounterOf(counters, o).bytes_stored + rows'[f].size_bytes]_vars


\* the audit action codes that record a commit of the given state
ActionsFor(state) ==
    CASE state = "SCANNING" -> {"UPLOAD_ENQUEUED"}
      [] state = "REJECTED" -> {"UPLOAD_REJECTED"}
      [] state = "QUARANTINED" -> {"UPLOAD_QUARANTINED", "SCAN_QUARANTINED"}
      [] state = "ACTIVE" -> {"SCAN_PASS"}
      [] OTHER -> {}

\* the step appends exactly one audit event, for file f, with one of the codes
AppendsOne(f, actions) ==
    /\ BagCardinality(audit') = BagCardinality(audit) + 1
    /\ CountEvents(audit', f, actions) = CountEvents(audit, f, actions) + 1

\* C21: every step in which complete_upload or scan_file commits a change of
\* a file's state appends exactly one audit event for that file with the
\* action code of the new state, also when the process fails between the
\* commit and the logging step; every download URL returned comes with
\* exactly one DOWNLOAD_URL_ISSUED event; audit events already written are
\* never modified or removed.
C21_EveryCommitIsAudited ==
    [][/\ audit \sqsubseteq audit'
       /\ \A f \in DOMAIN rows :
            rows'[f].state # rows[f].state
                => AppendsOne(f, ActionsFor(rows'[f].state))
       /\ (resp'.op = "download_url" /\ resp'.status = 200)
                => AppendsOne(resp'.file, {"DOWNLOAD_URL_ISSUED"})]_vars


\* the call that ended in this step met the named fault
Met(name) == "fault" \in DOMAIN resp' /\ resp'.fault = name

\* C22: when appending the audit event fails in complete_upload or
\* scan_file, the primary transition is not aborted: the committed state
\* stays, a file that became SCANNING still gets its scan job enqueued, and
\* the caller gets the normal response (complete_upload: HTTP 200 with the
\* new state; scan_file: its outcome, not an error).
C22_AuditFailureDoesNotAbort ==
    [][Met("audit") =>
         LET f == resp'.file
         IN /\ resp'.op = "complete" =>
                 /\ resp'.status = 200
                 /\ rows'[f].state = "SCANNING" => queue' = enqueue_scan(queue, f)
            /\ resp'.op = "scan_file" => resp'.ret # "raise"]_vars


\* C23: when a blob-store call (the HEAD for a reason other than not-found,
\* the checksum stream, the ranged GET of the sample) or a queue call fails
\* during complete_upload or scan_file, the persisted state of every file
\* after the call is the state it had before the call; such a failure never
\* moves a file to REJECTED, QUARANTINED or ACTIVE.
C23_InfraFailureKeepsState ==
    [][(/\ resp'.op \in {"complete", "scan_file"}
        /\ Met("blob_store") \/ Met("range_get") \/ Met("queue"))
         => \A f \in DOMAIN rows : rows'[f].state = rows[f].state]_vars


\* number of requests of the address to the route that were admitted (in
\* the bag given) at a time in lo..hi
AdmittedIn(bag, ip, rl, lo, hi) ==
    LET hits == {e \in BagToSet(bag) : e.ip = ip /\ e.rl = rl /\ e.at >= lo /\ e.at <= hi}
        RECURSIVE Sum(_)
        Sum(S) == IF S = {} THEN 0
                  ELSE LET e == CHOOSE x \in S : TRUE
                       IN CopiesIn(e, bag) + Sum(S \ {e})
    IN Sum(hits)

\* first and last second of the fixed window that contains t
WindowStart(t, window_seconds) == (t \div window_seconds) * window_seconds
WindowEnd(t, window_seconds) == WindowStart(t, window_seconds) + window_seconds - 1

\* a request to the route ended in this step
Decided(rl) == resp'.op = rl.route /\ calls' # calls

\* C24: within one fixed window (floor(now/window)) and for one (scope,
\* identity, route) key at most `limit` requests are admitted, also when they
\* overlap; once `limit` requests of the window are admitted every further
\* request of that key in that window gets 429 "rate limit exceeded"; a
\* request changes no counter but the one of its own key and window.
C24_WindowAdmitsAtMostLimit ==
    [][/\ \A rl \in RateLimits :
            Decided(rl) =>
              LET lo == WindowStart(resp'.at, rl.window_seconds)
                  hi == WindowEnd(resp'.at, rl.window_seconds)
              IN /\ AdmittedIn(admitted', resp'.ip, rl, lo, hi) <= rl.limit
                 /\ AdmittedIn(admitted, resp'.ip, rl, lo, hi) >= rl.limit
                      => /\ resp'.status = 429
                         /\ resp'.detail = "rate limit exceeded"
                 /\ \A e \in BagToSet(admitted) : CopiesIn(e, admitted') >= CopiesIn(e, admitted)
                 /\ \A e \in BagToSet(admitted') :
                      CopiesIn(e, admitted') # CopiesIn(e, admitted)
                          => e.ip = resp'.ip /\ e.rl = rl /\ e.at = resp'.at
       /\ DOMAIN redis \subseteq DOMAIN redis'
       /\ \A k \in DOMAIN redis' :
            (k \notin DOMAIN redis \/ redis'[k] # redis[k])
                => \E c \in RateCalls : k = rate_key(c[2], c[1], now) /\ calls' # calls
       /\ Cardinality({k \in DOMAIN redis' :
                         k \notin DOMAIN redis \/ redis'[k] # redis[k]}) <= 1]_vars

\* the sixth login of ip1 in a window is refused
C24_Witness ==
    /\ resp.op = "auth_login"
    /\ resp.status = 429
    /\ resp.ip = "ip1"
    /\ AdmittedIn(admitted, "ip1", AUTH_LOGIN, WindowStart(resp.at, 60), WindowEnd(resp.at, 60)) = 5

\* C25 as stated: after 5 admitted login calls from one address within one
\* minute, a 6th login call from that address within the same minute returns
\* 429, wherever in time that minute starts.
C25_SixthLoginInAnyMinute ==
    [][(/\ Decided(AUTH_LOGIN)
        /\ \E start \in (resp'.at - 59)..resp'.at :
             AdmittedIn(admitted, resp'.ip, AUTH_LOGIN, start, start + 59) >= 5)
         => resp'.status = 429]_vars

\* C25, for the fixed windows of the limiter: after 5 admitted login calls
\* from one address in the window floor(t/60), a 6th login call from that
\* address in the same window returns 429; the count starts again at the
\* next window, however close in time it is.
C25_SixthLoginInSameWindow ==
    [][Decided(AUTH_LOGIN) =>
         LET lo == WindowStart(resp'.at, 60)
             before == AdmittedIn(admitted, resp'.ip, AUTH_LOGIN, lo, lo + 59)
             counted == redis[rate_key(AUTH_LOGIN, resp'.ip, resp'.at)].count
         IN /\ before >= 5 => resp'.status = 429
            /\ counted <= 5 => resp'.status = 0]_vars

\* a login of ip1 is admitted in window 1 less than a minute after five
\* logins of ip1 were admitted in window 0
C25_Witness ==
    /\ resp.op = "auth_login"
    /\ resp.status = 0
    /\ resp.ip = "ip1"
    /\ resp.at \div 60 = 1
    /\ AdmittedIn(admitted, "ip1", AUTH_LOGIN, resp.at - 59, 59) = 5


C27_InitCreatesOneRowOrNone ==
    [][resp'.op = "init" =>
         IF resp'.status = 200
         THEN LET f == resp'.file
              IN /\ f \notin DOMAIN rows
                 /\ DOMAIN rows' = DOMAIN rows \cup {f}
                 /\ \A g \in DOMAIN rows : rows'[g] = rows[g]
                 /\ rows'[f].state = "INITIATED"
                 /\ rows'[f].checksum_verified = FALSE
                 /\ rows'[f].size_bytes = NoSize
                 /\ rows'[f].sniffed_content_type = None
                 /\ rows'[f].upload_expires_at = now + upload_presign_ttl_seconds
                 /\ AppendsOne(f, {"FILE_INIT"})
         ELSE rows' = rows /\ audit' = audit]_vars


\* C28: a scan job is enqueued only after the commit that set the file to
\* SCANNING: whenever a job for f is in the queue or a worker is running it,
\* the persisted row of f exists and has been SCANNING (it is SCANNING or in
\* a state reached from it, with the size recorded by the complete call),
\* so the row a worker loads for a job is never INITIATED.
C28_QueuedFilesHaveBeenScanning ==
    /\ \A i \in 1..Len(queue) :
         /\ queue[i].file_id \in DOMAIN rows
         /\ rows[queue[i].file_id].state # "INITIATED"
         /\ rows[queue[i].file_id].size_bytes # NoSize
    /\ \A w \in Workers :
         ws[w].pc # "idle" =>
            /\ ws[w].loaded.state # "INITIATED"
            /\ rows[ws[w].file].state # "INITIATED"

\* a worker runs the job of a file while a second job for it is queued
C28_Witness ==
    /\ queue # <<>>
    /\ \E w \in Workers :
         /\ ws[w].pc = "loaded"
         /\ ws[w].file = Head(queue).file_id
         /\ ws[w].retries_left = RETRY_MAX
         /\ rows[ws[w].file].state = "SCANNING"


\* the scan_file run of worker w ends in this step by raising
ScanRaises(w) ==
    /\ ws[w].pc # "idle"
    /\ ws'[w].pc = "idle"
    /\ resp'.op = "scan_file"
    /\ resp'.ret = "raise"

\* C29: whenever scan_file hits an unexpected error it appends one SCAN_FAIL
\* event with the stringified error and re-raises, so that RQ retries the
\* job; the file is still SCANNING at that point, so the retried job
\* processes it again.
C29_ScanErrorLeavesScanning ==
    [][\A w \in Workers :
         ScanRaises(w) =>
           LET f == ws[w].file
           IN /\ AppendsOne(f, {"SCAN_FAIL"})
              /\ queue' = IF ws[w].retries_left > 0
                          THEN Append(queue, [file_id |-> f,
                                              retries_left |-> ws[w].retries_left - 1])
                          ELSE queue
              /\ rows'[f].state = "SCANNING"]_vars

\* the decision of validate_upload_metadata on what the worker sees: the
\* stored names, the refreshed size, the type sniffed again, the sample, and
\* the scanner's MAX_SIZE_BYTES
PolicyAtScan(row, c) ==
    validate_upload_metadata(
        row.original_filename, row.declared_content_type,
        IF SampleOf(c) # <<>> THEN magic_from_buffer(c) ELSE row.sniffed_content_type,
        SizeOf(c), SampleOf(c), MAX_SIZE_BYTES)

\* C30: for every SCANNING file the decision of the worker before the
\* Office-container check and the quota check agrees with
\* validate_upload_metadata on the same inputs: it quarantines exactly when
\* the policy fails, and the reason it records is the policy's reason code.
C30_ScanAgreesWithPolicy ==
    [][\A w \in Workers :
         (ws[w].pc = "loaded" /\ ws'[w].pc # "loaded") =>
           LET f == ws[w].file
               out == scan_rules(ws[w].local, blobs[f])
               policy == PolicyAtScan(ws[w].local, blobs[f])
               early == out.branch \in {"sniff_missing", "too_large", "disallowed_type"}
           IN /\ early = ~policy.ok
              /\ early => out.branch = policy.reason]_vars

\* C31: can_transition(current, target) is true exactly for the five pairs
\* INITIATED->SCANNING, INITIATED->REJECTED, INITIATED->QUARANTINED,
\* SCANNING->ACTIVE and SCANNING->QUARANTINED, so that ACTIVE, QUARANTINED and
\* REJECTED have no outgoing transition.
C31_CanTransitionIsTheLegalTable ==
    resp.op = "can_transition"
        => /\ resp.result <=> (<<resp.current, resp.target>> \in LegalTransitions)
           /\ resp.current \in TerminalStates => ~resp.result

NotFound(r) == r.status = 404 /\ r.detail = "File not found"
Forbidden(r) == r.status = 403 /\ r.detail = "Forbidden"

C33_FirstFailingCheckDecides ==
    [][\A h \in Handlers :
          CompleteEnds(h)
          => LET f == hs[h].file
                 row == hs[h].loaded
                 c == blobs[f]
             IN IF DemoOversize(row, c)
                  THEN /\ rows'[f].state = "QUARANTINED"
                       /\ LoggedOnce(h, "UPLOAD_QUARANTINED", "demo_size_limit")
                       /\ rows'[f].checksum_verified = rows[f].checksum_verified
                       /\ queue' = queue
                ELSE IF Sha256Of(c) # row.checksum_sha256
                  THEN /\ rows'[f].state = "REJECTED"
                       /\ LoggedOnce(h, "UPLOAD_REJECTED", "checksum_mismatch")
                       /\ queue' = queue
                ELSE IF ~PolicyAtComplete(row, c).ok
                  THEN /\ rows'[f].state = "QUARANTINED"
                       /\ LoggedOnce(h, "UPLOAD_QUARANTINED", PolicyAtComplete(row, c).reason)
                       /\ queue' = queue
                ELSE /\ rows'[f].state = "SCANNING"
                     /\ LoggedOnce(h, "UPLOAD_ENQUEUED", None)]_vars

\* C33 witness: a file whose blob fails both the checksum and the policy has
\* just been REJECTED by complete, with the single event UPLOAD_REJECTED.
C33_Witness ==
    /\ resp.op = "complete" /\ resp.status = 200
    /\ resp.file \in DOMAIN blobs
    /\ rows[resp.file].state = "REJECTED"
    /\ Sha256Of(blobs[resp.file]) # rows[resp.file].checksum_sha256
    /\ ~PolicyAtComplete(rows[resp.file], blobs[resp.file]).ok
    /\ CountEvents(audit, resp.file, CompleteOutcomes) = 1
    /\ CountEvents(audit, resp.file, {"UPLOAD_REJECTED"}) = 1

SupportedExtensions ==
    {".pdf", ".txt", ".csv", ".png", ".jpg", ".jpeg", ".gif", ".docx", ".xlsx", ".pptx"}

\* the checks of the policy in their documented order, each with its verdict
\* on a call: <<reason, the check fails>>
PolicyChecks(a) ==
    LET supported == a.filename.ext \in SupportedExtensions
        policy == FILE_TYPE_POLICIES[a.filename.ext]
        sized == a.size_bytes # NoSize
    IN << <<"disallowed_extension", ~supported>>,
          <<"too_large", sized /\ a.max_size_bytes # NoSize /\ a.size_bytes > a.max_size_bytes>>,
          <<"type_size_limit", supported /\ sized /\ policy.max_size_bytes # NoSize
                                /\ a.size_bytes > policy.max_size_bytes>>,
          <<"declared_mime_mismatch", supported /\ a.declared.base \notin policy.expected_mimes>>,
          <<"sniff_missing", a.sniffed.base = None>>,
          <<"sniff_mismatch", supported /\ a.sniffed.base \notin policy.sniff_mimes>>,
          <<"magic_missing", supported /\ policy.magic_prefixes # {} /\ a.sample_bytes = <<>> >>,
          <<"magic_mismatch", supported /\ policy.magic_prefixes # {}
                /\ \A prefix \in policy.magic_prefixes : ~StartsWith(a.sample_bytes, prefix)>> >>

\* C34: validate_upload_metadata returns ok exactly when no check fails and
\* otherwise the one reason of the first failing check in the order
\* disallowed_extension, too_large, type_size_limit, declared_mime_mismatch,
\* sniff_missing, sniff_mismatch, magic_missing, magic_mismatch; an extension
\* outside the supported table yields disallowed_extension whatever the other
\* arguments are; extension and base type are compared without regard to
\* case and to MIME parameters.
C34_FirstFailingCheckIsTheReason ==
    resp.op = "validate_upload_metadata"
    => LET checks == PolicyChecks(resp.args)
           failing == {i \in DOMAIN checks : checks[i][2]}
       IN /\ resp.result.ok <=> failing = {}
          /\ resp.result.ok => resp.result.reason = None
          /\ ~resp.result.ok
               => \E i \in failing : /\ \A j \in failing : i <= j
                                     /\ resp.result.reason = checks[i][1]
          /\ resp.args.filename.ext \notin SupportedExtensions
               => resp.result = ValidationResult(FALSE, "disallowed_extension")

\* C34 witness: DOC.PDF declared "Application/PDF" with a sniffed type and
\* PDF magic is accepted, as doc.pdf declared application/pdf is.
C34_Witness ==
    /\ resp.op = "validate_upload_metadata"
    /\ resp.args.filename.raw = <<"DOC", ".PDF">>
    /\ resp.args.declared.raw = <<"Application/PDF">>
    /\ resp.args.sniffed.raw = "application/pdf"
    /\ resp.args.size_bytes = DEMO_MAX_UPLOAD_BYTES + 1
    /\ resp.args.max_size_bytes = DEFAULT_MAX_SIZE_BYTES
    /\ resp.result.ok

\* C35: for every ACTIVE file the SHA-256 of the blob now in the store equals
\* the row's checksum_sha256, although the client may PUT to the presigned
\* URL at any time until it expires.
C35_ActiveBlobMatchesChecksum ==
    \A f \in DOMAIN rows :
        rows[f].state = "ACTIVE"
        => f \in DOMAIN blobs /\ Sha256Of(blobs[f]) = rows[f].checksum_sha256

\* the sum of size_bytes over a set of files
RECURSIVE BytesOf(_)
BytesOf(fs) ==
    IF fs = {} THEN 0
    ELSE LET f == CHOOSE x \in fs : TRUE
         IN rows[f].size_bytes + BytesOf(fs \ {f})

\* C36: in every reachable state (the model has no deletions) each owner's
\* files_count is the number of that owner's ACTIVE files and bytes_stored the
\* sum of their size_bytes, counted from the values the counter had before
\* the first request; an owner without a counter row counts as 0 / 0.
C36_CountersMatchActiveFiles ==
    \A o \in {rows[f].owner_id : f \in DOMAIN rows} \cup DOMAIN counters :
        /\ CounterOf(counters, o).files_count
             = CounterOf(seeded, o).files_count + Cardinality(ActiveFiles(o))
        /\ CounterOf(counters, o).bytes_stored
             = CounterOf(seeded, o).bytes_stored + BytesOf(ActiveFiles(o))

\* C37: every file that enters SCANNING eventually reaches ACTIVE or
\* QUARANTINED, given that the worker keeps running and that blob store,
\* database and queue eventually respond.
C37_ScanningLeadsToOutcome ==
    \A f \in Files :
        (f \in DOMAIN rows /\ rows[f].state = "SCANNING")
            ~> (f \in DOMAIN rows /\ rows[f].state \in {"ACTIVE", "QUARANTINED"})

\* the blob c is what complete verified for the row and accepted under the
\* policy, with the entries of its Office type where the extension has one
PassedComplete(row, c) ==
    /\ Sha256Of(c) = row.checksum_sha256
    /\ PolicyAtComplete(row, c).ok
    /\ OfficeTypeOf(row.original_filename) # None
         => OFFICE_ZIP_MIME_TYPES[OfficeTypeOf(row.original_filename)] \subseteq ZipNamelist(c)

\* C38: a file of a supported extension, declared with a type the policy
\* accepts for it, that passed complete's policy validation, whose blob is
\* unchanged since, with valid Office structure where applicable and whose
\* owner has quota left, is moved to ACTIVE by scan_file and not QUARANTINED:
\* the rules of the scan let it pass, and the run that ends makes it ACTIVE.
\* Stated for runs during which no other session writes the row.
C38_AcceptedUploadsBecomeActive ==
    [][\A w \in Workers :
          LET f == ws[w].file
          IN /\ (/\ ws[w].pc = "loaded" /\ ws'[w].pc # "loaded"
                 /\ rows[f] = ws[w].loaded
                 /\ PassedComplete(ws[w].loaded, blobs[f]))
                => ws'[w].pc = "quota" /\ rows'[f].state # "QUARANTINED"
             /\ (/\ ws[w].pc = "quota" /\ ws'[w].pc = "idle"
                 /\ resp'.ret # "raise"
                 /\ rows[f] = ws[w].loaded
                 /\ PassedComplete(ws[w].loaded, blobs[f])
                 /\ increment_on_active(CounterOf(counters, ws[w].loaded.owner_id),
                                        ws[w].local.size_bytes).ok)
                => rows'[f].state = "ACTIVE"]_vars

\* C39: no file of a demo session is ever ACTIVE with size_bytes above
\* 10 MiB and no file at all is ever ACTIVE with size_bytes above 50 MiB,
\* even if the blob is replaced between complete and the scan.
C39_ActiveFilesWithinSizeLimits ==
    \A f \in DOMAIN rows :
        rows[f].state = "ACTIVE"
        => /\ rows[f].demo_id # None => rows[f].size_bytes <= DEMO_MAX_UPLOAD_BYTES
           /\ rows[f].size_bytes <= MAX_SIZE_BYTES

====
